---------------------------- MODULE Spec2Model ----------------------------
(***************************************************************************)
(* A model of the schema-to-type-model compiler of kcl-openapi             *)
(* (pkg/swagger/generator): the type resolver (types.go), the              *)
(* discriminator analyzer (discriminators.go) and the schema generation    *)
(* context engine (model.go), run over bounded swagger documents.          *)
(*                                                                         *)
(* Conventions                                                             *)
(*  - an optional value (a Go pointer that may be nil) is a sequence of    *)
(*    length 0 or 1;                                                       *)
(*  - a name is the sequence of its words (swag's name splitter works on   *)
(*    words, and TLA+ strings have no characters); the empty sequence is   *)
(*    the empty string; "#/definitions/<name>" is kept as <name>;          *)
(*  - an error is a non-empty string in the field err; "overflow" is the   *)
(*    unbounded recursion of the Go code (a fatal stack overflow).         *)
(***************************************************************************)
EXTENDS Integers, Sequences, FiniteSets, TLC

\* --------------------------------------------------------------- bounds

\* the longest enum list of a schema
MaxEnum == 3

\* the most properties with a package of their own in a model
MaxImports == 3

\* the most versions of a CRD
MaxVersions == 2

\* the most words and symbols of a model name that is mangled
MaxName == 4

\* Number of property names an object of the generated inputs draws from.
MaxProps == 3

\* ------------------------------------------------------ strings and names

Some(x) == <<x>>
None == <<>>
IsSome(o) == Len(o) > 0
Get(o) == o[1]

\* With([x \in {v} |-> e]) is e with x standing for v: the value of a step
\* taken once, under a name
With(f) == f[CHOOSE x \in DOMAIN f : TRUE]

\* Go compares strings bytewise: the words the model uses, in that order.
StrOrder == <<".", "/additionalItems", "/additionalProperties", "/allOf/", "/items",
              "/items/", "/properties/", "0", "1", "2", "A", "AO0", "AO1", "AO2",
              "AdditionalProperties", "AllOf0", "AllOf1", "AllOf2", "Animal", "Anon",
              "B", "Bar", "Baz", "C", "Cat", "D", "Dog", "Foo", "Items", "Items0", "Items1",
              "Items2", "Kind", "Name", "P0", "P1", "P2", "Pack", "Qux", "Tuple0",
              "Tuple1", "Tuple2", "a", "additionalItems", "additionalProperties",
              "animal", "b", "bar", "baz", "c", "cat", "d", "dog", "foo", "items", "items0",
              "items1", "items2", "kind", "name", "p0", "p1", "p2", "pack", "qux">>

StrRank(w) == CHOOSE i \in 1..Len(StrOrder) : StrOrder[i] = w

RECURSIVE NameLess(_, _)
NameLess(x, y) ==
    IF Len(y) = 0 THEN FALSE
    ELSE IF Len(x) = 0 THEN TRUE
    ELSE IF x[1] = y[1] THEN NameLess(Tail(x), Tail(y))
    ELSE StrRank(x[1]) < StrRank(y[1])

\* swag.ToGoName upper-cases the first letter of every word of a name.
Title(w) ==
    CASE w = "a" -> "A" [] w = "b" -> "B" [] w = "c" -> "C" [] w = "d" -> "D"
      [] w = "items" -> "Items" [] w = "kind" -> "Kind"
      [] w = "name" -> "Name" [] w = "pack" -> "Pack"
      [] w = "items0" -> "Items0" [] w = "items1" -> "Items1" [] w = "items2" -> "Items2"
      [] w = "p0" -> "P0" [] w = "p1" -> "P1" [] w = "p2" -> "P2"
      [] w = "foo" -> "Foo" [] w = "bar" -> "Bar" [] w = "baz" -> "Baz"
      [] w = "qux" -> "Qux" [] w = "animal" -> "Animal" [] w = "dog" -> "Dog"
      [] w = "cat" -> "Cat"
      [] OTHER -> w

ToGoName(name) == [i \in 1..Len(name) |-> Title(name[i])]

Itoa(i) == CASE i = 0 -> "0" [] i = 1 -> "1" [] i = 2 -> "2" [] OTHER -> "3"

\* The KCL reserved words a model name of the inputs can meet.
ReservedWords == {<<"schema">>, <<"import">>, <<"check">>, <<"lambda">>}

\* MangleModelName: '-' and '.' of the last dotted segment become '_', and a
\* reserved word gets the prefix '$'.
LastDot(name) ==
    LET S == {i \in 1..Len(name) : name[i] = "."}
    IN IF S = {} THEN 0 ELSE CHOOSE i \in S : \A j \in S : j <= i

\* a name with '-' replaced in every segment
MangleWholeName(modelName) ==
    [i \in 1..Len(modelName) |-> IF modelName[i] = "-" THEN "_" ELSE modelName[i]]

MangleModelName(modelName) ==
    LET lastDotIndex == LastDot(modelName)
        replaced == [i \in 1..Len(modelName) |->
                       IF i > lastDotIndex /\ modelName[i] \in {"-", "."}
                       THEN "_" ELSE modelName[i]]
    IN IF replaced \in ReservedWords THEN <<"$">> \o replaced ELSE replaced

\* ---------------------------------------------------------------- schemas

\* The vendor extensions the generator reads: x-order, the Kubernetes
\* int-or-string flag, x-schema and x-omitempty.  xorderFirst tells that the
\* x-order key stands before the type key in the source document.
NoExt ==
    [xorder |-> None, xorderFirst |-> FALSE, intOrStr |-> FALSE, xschema |-> "",
     omitEmpty |-> None]

\* spec.Schema, with the fields the generator reads.  valid stands for the
\* presence of a number, string or slice validation (hasValidations), enum
\* is the enum list: None when the schema has none, else the decoded values.
EmptySchema ==
    [ref |-> <<>>, type |-> <<>>, format |-> "", disc |-> "",
     props |-> <<>>, required |-> {}, items |-> None,
     addProps |-> None, addItems |-> None, allOf |-> <<>>,
     ext |-> NoExt, valid |-> FALSE, enum |-> None]

RefProperty(name) == [EmptySchema EXCEPT !.ref = name]
Typed(t) == [EmptySchema EXCEPT !.type = <<t>>]
\* spec.SchemaOrArray and spec.SchemaOrBool
ItemsOne(s) == Some([Schema |-> Some(s), Schemas |-> <<>>])
ItemsMany(ss) == Some([Schema |-> None, Schemas |-> ss])
OrBoolSchema(s) == Some([Allows |-> TRUE, Schema |-> Some(s)])
OrBoolAllows(b) == Some([Allows |-> b, Schema |-> None])

PropNames(s) == {s.props[i].k : i \in 1..Len(s.props)}
PropOf(s, k) == (CHOOSE i \in 1..Len(s.props) : s.props[i].k = k)


\* ---------------------------------------------------------- type resolver

\* typeMapping (formats.go) and formatMapping, as partial tables.
typeMapping(t) ==
    CASE t = "string" -> Some(<<"str">>)
      [] t = "boolean" -> Some(<<"bool">>)
      [] t = "integer" -> Some(<<"int">>)
      [] t = "number" -> Some(<<"float">>)
      [] t = "intorstring" -> Some(<<"int | str">>)
      [] OTHER -> None

formatMapping(t, f) ==
    CASE t = "number" /\ f = "float" -> Some(<<"float">>)
      [] t = "number" /\ f \in {"int", "int8", "int16", "int32"} -> Some(<<"int">>)
      [] t = "integer" /\ f \in {"int", "int8", "int16", "int32"} -> Some(<<"int">>)
      [] OTHER -> None

\* strings.Replace(schema.Format, "-", "", -1) on the formats of the inputs
StripDash(f) == IF f = "int-or-string" THEN "intorstring"
                ELSE IF f = "date-time" THEN "datetime" ELSE f

\* resolvedType{}
RT0 ==
    [IsAnonymous |-> FALSE, IsArray |-> FALSE, IsMap |-> FALSE,
     IsPrimitive |-> FALSE, IsEmptyOmitted |-> FALSE, IsTuple |-> FALSE,
     HasAdditionalItems |-> FALSE, IsComplexObject |-> FALSE,
     IsBaseType |-> FALSE, HasDiscriminator |-> FALSE,
     KclType |-> <<>>, SwaggerType |-> "", SwaggerFormat |-> "",
     Extensions |-> NoExt, ElemType |-> None]

Res(rt, err) == [rt |-> rt, err |-> err]

\* spec.ResolveRef: one step, into the live definitions map
ResolveRef(doc, ref) ==
    IF ref \in DOMAIN doc THEN [sch |-> doc[ref], err |-> ""]
    ELSE [sch |-> EmptySchema, err |-> "unresolved ref"]

\* knownDefKclType without x-kcl-name and x-kcl-type: the cleared definition name
kclTypeName(modelName) == MangleModelName(modelName)

knownDefKclType(def) == kclTypeName(def)

firstType(schema) ==
    IF Len(schema.type) = 0 \/ schema.type[1] = "" THEN "object"
    ELSE IF Len(schema.type) = 2
            /\ ((schema.type[1] = "string" /\ schema.type[2] = "integer")
                \/ (schema.type[1] = "integer" /\ schema.type[2] = "string"))
         THEN "intorstring"
    ELSE schema.type[1]

\* result.setIsEmptyOmitted(schema, tpe), deferred in ResolveSchema
setIsEmptyOmitted(rt, schema, tpe) ==
    IF IsSome(schema.ext.omitEmpty)
    THEN [rt EXCEPT !.IsEmptyOmitted = Get(schema.ext.omitEmpty)]
    ELSE [rt EXCEPT !.IsEmptyOmitted = (tpe # "array")]

\* a format that maps to no type
resolveFormatNever(schema) == [returns |-> FALSE, rt |-> RT0]

resolveFormat(schema) ==
    IF schema.format = "" THEN [returns |-> FALSE, rt |-> RT0]
    ELSE
      LET swaggerType == IF Len(schema.type) > 0 THEN schema.type[1] ELSE "string"
          schFmt == StripDash(schema.format)
          fmm == formatMapping(swaggerType, schFmt)
          tm == typeMapping(schFmt)
          returns == IsSome(fmm) \/ IsSome(tm)
          kcl == IF IsSome(fmm) THEN Get(fmm) ELSE IF IsSome(tm) THEN Get(tm) ELSE <<>>
      IN [returns |-> returns,
          rt |-> [RT0 EXCEPT !.SwaggerType = swaggerType, !.KclType = kcl,
                             !.SwaggerFormat = schema.format,
                             !.Extensions = schema.ext]]

\* the x-kubernetes-int-or-string flag never read
resolveExtensionsUnread(schema) == [returns |-> FALSE, rt |-> RT0]

resolveExtensions(schema) ==
    IF schema.ext.intOrStr
    THEN [returns |-> TRUE,
          rt |-> [RT0 EXCEPT
                    !.SwaggerType = IF Len(schema.type) > 0 THEN schema.type[1]
                                    ELSE "string",
                    !.KclType = Get(typeMapping("intorstring")),
                    !.Extensions = schema.ext]]
    ELSE [returns |-> FALSE, rt |-> RT0]

RECURSIVE ResolveSchema(_, _, _, _, _, _)
RECURSIVE resolveSchemaRef(_, _, _, _, _)
RECURSIVE resolveArray(_, _, _, _, _)
RECURSIVE resolveObject(_, _, _, _, _)

\* ResolveSchema of a possibly nil schema.  doc is the live definitions map,
\* mn the resolver's ModelName, vis the references being resolved up the
\* call chain: meeting one of them again is a recursion that never ends.
ResolveOpt(doc, mn, sopt, isAnonymous, isRequired, vis) ==
    IF ~IsSome(sopt) THEN Res([RT0 EXCEPT !.KclType = <<"any">>], "")
    ELSE ResolveSchema(doc, mn, Get(sopt), isAnonymous, isRequired, vis)

resolveSchemaRef(doc, mn, schema, isRequired, vis) ==
    IF schema.ref \in vis THEN Res(RT0, "overflow")
    ELSE
      With([rr \in {ResolveRef(doc, schema.ref)} |->
      IF rr.err # "" THEN Res(RT0, rr.err)
      ELSE
      With([res \in {ResolveSchema(doc, mn, rr.sch, FALSE, isRequired,
                                   vis \cup {schema.ref})} |->
      IF res.err # "" THEN Res(RT0, res.err)
      ELSE
      With([tpe \in {knownDefKclType(schema.ref)} |->
        Res([res.rt EXCEPT !.KclType = IF tpe # <<>> THEN tpe ELSE @,
                           !.HasDiscriminator = res.rt.HasDiscriminator,
                           !.IsBaseType = res.rt.HasDiscriminator], "")])])])

resolveArray(doc, mn, schema, isAnonymous, vis) ==
    With([r0 \in {[RT0 EXCEPT
                     !.IsArray = TRUE,
                     !.HasAdditionalItems =
                         IF IsSome(schema.addItems)
                         THEN Get(schema.addItems).Allows
                              \/ IsSome(Get(schema.addItems).Schema)
                         ELSE FALSE]} |->
    IF ~IsSome(schema.items)
    THEN Res([r0 EXCEPT !.KclType = <<"[", "any", "]">>, !.SwaggerType = "array"], "")
    ELSE IF Len(Get(schema.items).Schemas) > 0
    THEN Res([r0 EXCEPT !.IsArray = FALSE, !.IsTuple = TRUE, !.SwaggerType = "array"], "")
    ELSE
      With([er \in {ResolveOpt(doc, mn, Get(schema.items).Schema, TRUE, FALSE, vis)} |->
      IF er.err # "" THEN Res(r0, er.err)
      ELSE Res([r0 EXCEPT !.KclType = <<"[">> \o er.rt.KclType \o <<"]">>,
                          !.ElemType = Some(er.rt),
                          !.SwaggerType = "array",
                          !.Extensions = schema.ext], "")])])

resolveObject(doc, mn, schema, isAnonymous, vis) ==
    With([r1 \in {[RT0 EXCEPT
                     !.IsAnonymous = isAnonymous,
                     !.IsBaseType = (schema.disc # ""),
                     !.SwaggerType = IF ~isAnonymous THEN "object" ELSE @,
                     !.KclType = IF ~isAnonymous THEN knownDefKclType(mn) ELSE @]} |->
    IF Len(schema.allOf) > 0
    THEN Res([r1 EXCEPT !.KclType = kclTypeName(mn), !.IsComplexObject = TRUE,
                        !.SwaggerType = "object"], "")
    ELSE
      With([r2 \in {[r1 EXCEPT !.IsComplexObject = Len(schema.props) > 0]} |->
      IF IsSome(schema.addProps) /\ IsSome(Get(schema.addProps).Schema)
      THEN
        With([sch \in {Get(Get(schema.addProps).Schema)} |->
        With([et \in {ResolveSchema(doc, mn, sch, sch.ref = <<>>, FALSE, vis)} |->
        IF et.err # "" THEN Res(r2, et.err)
        ELSE Res([r2 EXCEPT !.IsMap = ~r2.IsComplexObject,
                            !.SwaggerType = "object",
                            !.KclType = <<"{str:">> \o et.rt.KclType \o <<"}">>,
                            !.ElemType = Some(et.rt)], "")])])
      ELSE IF Len(schema.props) > 0 THEN Res(r2, "")
      ELSE IF isAnonymous
      THEN Res([r2 EXCEPT !.KclType = <<"any">>, !.IsMap = TRUE,
                          !.SwaggerType = "object"], "")
      ELSE Res(r2, "")])])

ResolveSchema(doc, mn, schema, isAnonymous, isRequired, vis) ==
    With([tpe \in {firstType(schema)} |->
    IF schema.ref # <<>>
    THEN
      With([r \in {resolveSchemaRef(doc, mn, schema, isRequired, vis)} |->
      IF ~isAnonymous
      THEN Res([r.rt EXCEPT !.IsMap = FALSE, !.IsComplexObject = TRUE], r.err)
      ELSE r])
    ELSE
      With([f \in {resolveFormat(schema)} |->
      IF f.returns THEN Res(setIsEmptyOmitted(f.rt, schema, tpe), "")
      ELSE
      With([x \in {resolveExtensions(schema)} |->
      IF x.returns THEN Res(setIsEmptyOmitted(x.rt, schema, tpe), "")
      ELSE IF tpe = "array"
      THEN With([a \in {resolveArray(doc, mn, schema, isAnonymous, vis)} |->
             Res(setIsEmptyOmitted(a.rt, schema, tpe), a.err)])
      ELSE IF tpe \in {"number", "integer", "boolean", "string"}
      THEN Res(setIsEmptyOmitted(
                 [RT0 EXCEPT !.Extensions = schema.ext,
                             !.KclType = Get(typeMapping(tpe)),
                             !.SwaggerType = tpe,
                             !.IsPrimitive = TRUE], schema, tpe), "")
      ELSE IF tpe = "object"
      THEN With([o \in {resolveObject(doc, mn, schema, isAnonymous, vis)} |->
             IF o.err # "" THEN Res(setIsEmptyOmitted(RT0, schema, tpe), o.err)
             ELSE Res(setIsEmptyOmitted(
                        [o.rt EXCEPT !.HasDiscriminator = (schema.disc # "")],
                        schema, tpe), "")])
      ELSE Res(setIsEmptyOmitted(RT0, schema, tpe), "unresolvable")])])])


\* ------------------------------------------------ go-openapi/analysis

\* strfmt.Default.ContainsName on the formats of the inputs
KnownFormat(f) == f \in {"date", "date-time", "uuid", "duration", "byte", "password"}

TypeContains(schema, t) == \E i \in 1..Len(schema.type) : schema.type[i] = t

\* AnalyzedSchema{}
AS0 ==
    [IsKnownType |-> FALSE, IsSimpleSchema |-> FALSE, IsArray |-> FALSE,
     IsSimpleArray |-> FALSE, IsMap |-> FALSE, IsSimpleMap |-> FALSE,
     IsBaseType |-> FALSE, err |-> ""]

RECURSIVE AnalyzeSchema(_, _, _)
\* analysis.Schema(SchemaOpts{Root: doc, Schema: schema}): a reference is
\* expanded (inferFromRef) and the flags are those of its target.
AnalyzeSchema(doc, schema, vis) ==
    IF schema.ref # <<>>
    THEN IF schema.ref \in vis THEN [AS0 EXCEPT !.err = "overflow"]
         ELSE IF schema.ref \notin DOMAIN doc THEN [AS0 EXCEPT !.err = "unresolved ref"]
         ELSE AnalyzeSchema(doc, doc[schema.ref], vis \cup {schema.ref})
    ELSE
      LET hasProps == Len(schema.props) > 0
          hasAllOf == Len(schema.allOf) > 0
          hasItems == IsSome(schema.items)
                      /\ (IsSome(Get(schema.items).Schema)
                          \/ Len(Get(schema.items).Schemas) > 0)
          hasAdditionalProps ==
              IsSome(schema.addProps)
              /\ (Get(schema.addProps).Allows \/ IsSome(Get(schema.addProps).Schema))
          hasAdditionalItems ==
              IsSome(schema.addItems)
              /\ (Get(schema.addItems).Allows \/ IsSome(Get(schema.addItems).Schema))
          isObjectType == Len(schema.type) = 0 \/ TypeContains(schema, "")
                          \/ TypeContains(schema, "object")
          isArrayType == TypeContains(schema, "array")
          known == TypeContains(schema, "boolean") \/ TypeContains(schema, "integer")
                   \/ TypeContains(schema, "number") \/ TypeContains(schema, "string")
                   \/ (schema.format # "" /\ KnownFormat(schema.format))
                   \/ (isObjectType /\ ~hasProps /\ ~hasAllOf /\ ~hasAdditionalProps
                       /\ ~hasAdditionalItems)
          isMap == isObjectType /\ hasAdditionalProps /\ ~(hasProps \/ hasAllOf)
          msch == IF isMap /\ IsSome(Get(schema.addProps).Schema)
                  THEN AnalyzeSchema(doc, Get(Get(schema.addProps).Schema), vis)
                  ELSE [AS0 EXCEPT !.IsSimpleSchema = TRUE]
          isArray == isArrayType
                     /\ (~IsSome(schema.items) \/ Len(Get(schema.items).Schemas) = 0)
          itsch == IF isArray /\ hasItems /\ IsSome(Get(schema.items).Schema)
                   THEN AnalyzeSchema(doc, Get(Get(schema.items).Schema), vis)
                   ELSE [AS0 EXCEPT !.IsSimpleSchema = isArray /\ ~hasItems]
          simpleMap == isMap /\ msch.IsSimpleSchema
          simpleArray == isArray /\ itsch.IsSimpleSchema
      IN
      IF msch.err # "" THEN [AS0 EXCEPT !.err = msch.err]
      ELSE IF itsch.err # "" THEN [AS0 EXCEPT !.err = itsch.err]
      ELSE [IsKnownType |-> known,
            IsSimpleSchema |-> known \/ simpleArray \/ simpleMap,
            IsArray |-> isArray, IsSimpleArray |-> simpleArray,
            IsMap |-> isMap, IsSimpleMap |-> simpleMap,
            IsBaseType |-> isObjectType /\ schema.disc # "",
            err |-> ""]

\* ----------------------------------------------------- map iteration

\* A Go map is ranged over in no particular order.  perm, a permutation of
\* 1..MaxProps, is the order of one run: the keys of a map, taken in
\* ascending order, are visited in the order perm gives their positions
\* (positions beyond MaxProps follow in ascending order).
RECURSIVE SortNames(_)
SortNames(S) ==
    IF S = {} THEN <<>>
    ELSE LET m == CHOOSE x \in S : \A y \in S \ {x} : NameLess(x, y)
         IN <<m>> \o SortNames(S \ {m})

RangeOrder(n, perm) ==
    LET head == SelectSeq(perm, LAMBDA p : p <= n)
        tail == [i \in 1..(IF n > Len(perm) THEN n - Len(perm) ELSE 0) |-> Len(perm) + i]
    IN head \o tail

\* the keys of a set of names, in the order the run ranges over them
RangeNames(S, perm) ==
    LET sorted == SortNames(S)
        ord == RangeOrder(Len(sorted), perm)
    IN [i \in 1..Len(sorted) |-> sorted[ord[i]]]

\* the positions of schema.Properties, in the order the run ranges over them
RangeProps(schema, perm) ==
    LET keys == RangeNames({<<schema.props[i].k>> : i \in 1..Len(schema.props)}, perm)
    IN [i \in 1..Len(keys) |-> PropOf(schema, keys[i][1])]


\* ------------------------------------------------------- discriminators

\* analysis.Spec: every schema below a definition, under its JSON pointer
\* (analyzeSchema); key is the pointer below "#/definitions/", name the
\* last segment.
SchemaRef(key, name, schema) == [key |-> key, name |-> name, schema |-> schema]

RECURSIVE analyzeSchema(_, _, _)
analyzeSchema(key, name, schema) ==
    {SchemaRef(key, name, schema)}
    \cup UNION {analyzeSchema(key \o <<"/properties/", schema.props[i].k>>,
                              <<schema.props[i].k>>, schema.props[i].v)
                  : i \in 1..Len(schema.props)}
    \cup UNION {analyzeSchema(key \o <<"/allOf/", Itoa(i - 1)>>, <<Itoa(i - 1)>>,
                              schema.allOf[i])
                  : i \in 1..Len(schema.allOf)}
    \cup (IF IsSome(schema.addProps) /\ IsSome(Get(schema.addProps).Schema)
          THEN analyzeSchema(key \o <<"/additionalProperties">>,
                             <<"additionalProperties">>, Get(Get(schema.addProps).Schema))
          ELSE {})
    \cup (IF IsSome(schema.addItems) /\ IsSome(Get(schema.addItems).Schema)
          THEN analyzeSchema(key \o <<"/additionalItems">>,
                             <<"additionalItems">>, Get(Get(schema.addItems).Schema))
          ELSE {})
    \cup (IF IsSome(schema.items) /\ IsSome(Get(schema.items).Schema)
          THEN analyzeSchema(key \o <<"/items">>, <<"items">>,
                             Get(Get(schema.items).Schema))
          ELSE {})
    \cup (IF IsSome(schema.items)
          THEN UNION {analyzeSchema(key \o <<"/items/", Itoa(i - 1)>>, <<Itoa(i - 1)>>,
                                    Get(schema.items).Schemas[i])
                        : i \in 1..Len(Get(schema.items).Schemas)}
          ELSE {})

\* doc.AllDefinitions()
AllDefinitions(doc) == {SchemaRef(n, n, doc[n]) : n \in DOMAIN doc}

\* doc.SchemasWithAllOf(): nested schemas included
SchemasWithAllOf(doc) ==
    {sr \in UNION {analyzeSchema(n, n, doc[n]) : n \in DOMAIN doc} :
        Len(sr.schema.allOf) > 0}

\* a discee whose FieldValue is the name, the x-schema extension unread
DisceeByName(sch, ao, fieldName) ==
    [FieldName |-> fieldName, FieldValue |-> sch.name,
     Ref |-> sch.key, ParentRef |-> ao.ref, JSONName |-> sch.name,
     KclType |-> ToGoName(sch.name)]

\* discee for schema sch and its allOf branch ao, which refers to base bt
Discee(sch, ao, fieldName) ==
    [FieldName |-> fieldName,
     FieldValue |-> IF sch.schema.ext.xschema # "" THEN <<sch.schema.ext.xschema>>
                    ELSE sch.name,
     Ref |-> sch.key, ParentRef |-> ao.ref, JSONName |-> sch.name,
     KclType |-> ToGoName(sch.name)]

RECURSIVE FlattenSeq(_)
FlattenSeq(ss) == IF ss = <<>> THEN <<>> ELSE Head(ss) \o FlattenSeq(Tail(ss))

\* discriminatorInfo(doc): the base types with their children, and the
\* subtypes; perm is the order the run ranges over SchemasWithAllOf().
discriminatorInfo(doc, perm) ==
    LET bases == {sr.key : sr \in {d \in AllDefinitions(doc) : d.schema.disc # ""}}
        withAllOf == SchemasWithAllOf(doc)
        keys == RangeNames({sr.key : sr \in withAllOf}, perm)
        At(k) == CHOOSE sr \in withAllOf : sr.key = k
        IsSub(ao) == ao.ref # <<>> /\ ao.ref \in bases
        \* the discees one schema adds, in the order of its allOf branches
        Of(k) == LET sch == At(k)
                     hits == SelectSeq(sch.schema.allOf, IsSub)
                 IN [i \in 1..Len(hits) |-> Discee(sch, hits[i], doc[hits[i].ref].disc)]
        all == FlattenSeq([i \in 1..Len(keys) |-> Of(keys[i])])
        subs == {k \in {keys[i] : i \in 1..Len(keys)} : Len(Of(k)) > 0}
    IN [Discriminators |->
          [b \in bases |->
             [FieldName |-> doc[b].disc, KclType |-> ToGoName(b), JSONName |-> b,
              Children |-> SelectSeq(all, LAMBDA d : d.ParentRef = b)]],
        Discriminated |-> [k \in subs |-> Of(k)[Len(Of(k))]]]


\* ------------------------------------------------- generation contexts

\* GenSchema{}: rt is the embedded resolvedType; IsBaseType and
\* HasAdditionalItems are GenSchema's own fields, which shadow rt's.
GS0 ==
    [rt |-> RT0, HasValidations |-> FALSE, Name |-> <<>>, Required |-> FALSE,
     Items |-> None, HasAdditionalItems |-> FALSE, AdditionalItems |-> None,
     Properties |-> <<>>, AllOf |-> <<>>,
     HasAdditionalProperties |-> FALSE, IsAdditionalProperties |-> FALSE,
     AdditionalProperties |-> None,
     IsBaseType |-> FALSE, HasBaseType |-> FALSE, IsSubType |-> FALSE,
     IsExported |-> FALSE, DiscriminatorField |-> "", DiscriminatorValue |-> <<>>,
     Discriminates |-> <<>>]

\* Go shares storage: the definitions of the document, the gathered models
\* and the Schema of every context are struct copies whose slices, maps and
\* pointers are the same.  The heap holds
\*   doc      the definitions of the swagger document,
\*   models   the gathered models (a.Models),
\*   detached the models whose definition was stored anew since gathering,
\*   cells    the Schema field of every context made so far (by id),
\*   es       the ExtraSchemas maps made so far (by id),
\*   failed   whether a step on some context returned an error so far;
\* KeepOrder is the option of the run, that every context carries.
\* A path names a schema of the heap: a root and the steps below it.
Step(f, k, i) == [f |-> f, k |-> k, i |-> i]
DocPath(name) == [root |-> "doc", name |-> name, id |-> 0, steps |-> <<>>]
ModelPath(name) == [root |-> "models", name |-> name, id |-> 0, steps |-> <<>>]
CellPath(id) == [root |-> "cells", name |-> <<>>, id |-> id, steps |-> <<>>]
Below(path, step) == [path EXCEPT !.steps = Append(@, step)]

\* the schema s with the schema below it at steps replaced by v: a store
\* into the slot allOf[i], items.Schema, additionalProperties.Schema or
\* additionalItems.Schema
RECURSIVE UpdateAt(_, _, _)
UpdateAt(s, steps, v) ==
    IF steps = <<>> THEN v
    ELSE
      LET st == Head(steps)
          rest == Tail(steps)
          last == (rest = <<>>)
      IN CASE st.f = "prop" ->
                IF st.k \in PropNames(s)
                THEN [s EXCEPT !.props[PropOf(s, st.k)].v = UpdateAt(@, rest, v)] ELSE s
           [] st.f = "allOf" ->
                IF st.i <= Len(s.allOf)
                THEN [s EXCEPT !.allOf[st.i] = UpdateAt(@, rest, v)] ELSE s
           [] st.f = "tuple" ->
                IF IsSome(s.items) /\ st.i <= Len(Get(s.items).Schemas)
                THEN [s EXCEPT !.items[1].Schemas[st.i] = UpdateAt(@, rest, v)] ELSE s
           [] st.f = "items" ->
                IF IsSome(s.items) /\ last
                THEN [s EXCEPT !.items[1].Schema = Some(v)]
                ELSE IF IsSome(s.items) /\ IsSome(Get(s.items).Schema)
                THEN [s EXCEPT !.items[1].Schema[1] = UpdateAt(@, rest, v)] ELSE s
           [] st.f = "addProps" ->
                IF IsSome(s.addProps) /\ last
                THEN [s EXCEPT !.addProps[1].Schema = Some(v)]
                ELSE IF IsSome(s.addProps) /\ IsSome(Get(s.addProps).Schema)
                THEN [s EXCEPT !.addProps[1].Schema[1] = UpdateAt(@, rest, v)] ELSE s
           [] st.f = "addItems" ->
                IF IsSome(s.addItems) /\ last
                THEN [s EXCEPT !.addItems[1].Schema = Some(v)]
                ELSE IF IsSome(s.addItems) /\ IsSome(Get(s.addItems).Schema)
                THEN [s EXCEPT !.addItems[1].Schema[1] = UpdateAt(@, rest, v)] ELSE s
           [] OTHER -> s

RECURSIVE UpdateAll(_, _, _)
UpdateAll(s, ps, v) ==
    IF ps = {} THEN s
    ELSE LET p == CHOOSE q \in ps : TRUE
         IN UpdateAll(UpdateAt(s, p.steps, v), ps \ {p}, v)

\* the store of v into a slot, seen at every place of the heap that shares it
HeapSet(h, slots, v) ==
    [h EXCEPT
       !.doc = [n \in DOMAIN h.doc |->
                  UpdateAll(h.doc[n], {p \in slots : p.root = "doc" /\ p.name = n}, v)],
       !.models = [n \in DOMAIN h.models |->
                  UpdateAll(h.models[n], {p \in slots : p.root = "models" /\ p.name = n}, v)],
       !.cells = [i \in 1..Len(h.cells) |->
                  UpdateAll(h.cells[i], {p \in slots : p.root = "cells" /\ p.id = i}, v)]]

MapPut(m, k, v) == [n \in DOMAIN m \cup {k} |-> IF n = k THEN v ELSE m[n]]
MapMerge(m, o) == [n \in DOMAIN m \cup DOMAIN o |-> IF n \in DOMAIN o THEN o[n] ELSE m[n]]

\* sp.Definitions[name] = schema
DocPut(h, name, schema) ==
    [h EXCEPT !.doc = MapPut(@, name, schema),
              !.detached = @ \cup ({name} \cap DOMAIN h.models)]

\* schemaGenContext.  id is the cell of its Schema, es its ExtraSchemas map;
\* hasTR tells a non-nil TypeResolver, ModelName is the resolver's; orig are
\* the places of the heap that share the Schema's storage, palias the further
\* places that share one of its slots.
Ctx0 ==
    [id |-> 0, es |-> 0, Required |-> FALSE, Named |-> FALSE, IsVirtual |-> FALSE,
     IsTuple |-> FALSE, Index |-> 0, Name |-> <<>>, hasTR |-> TRUE,
     ModelName |-> <<>>, GenSchema |-> GS0, orig |-> {}, palias |-> <<>>]

Sch(sg, h) == h.cells[sg.id]
ESOf(sg, h) == h.es[sg.es]

\* sg.Schema = schema, a struct copy that shares the storage of share
SetSchema(sg, h, schema, share) ==
    [sg |-> [sg EXCEPT !.orig = {CellPath(sg.id)} \cup share],
     h |-> [h EXCEPT !.cells[sg.id] = schema]]

\* sg.ExtraSchemas[name] = gs
ESPut(sg, h, name, gs) == [h EXCEPT !.es[sg.es] = MapPut(@, name, gs)]

\* a clone with an empty ExtraSchemas map of its own
deepClone(sg, h, schema, share) ==
    LET id == Len(h.cells) + 1
    IN [pg |-> [sg EXCEPT !.id = id, !.es = Len(h.es) + 1, !.GenSchema = GS0,
                          !.Named = FALSE, !.Index = 0, !.IsTuple = FALSE,
                          !.palias = <<>>, !.orig = {CellPath(id)} \cup share],
        h |-> [h EXCEPT !.cells = Append(@, schema), !.es = Append(@, <<>>)]]

\* pg := sg.shallowClone(); pg.Schema = schema: the clone keeps the
\* ExtraSchemas map of sg
shallowClone(sg, h, schema, share) ==
    LET id == Len(h.cells) + 1
    IN [pg |-> [sg EXCEPT !.id = id, !.GenSchema = GS0, !.Named = FALSE, !.Index = 0,
                          !.IsTuple = FALSE, !.palias = <<>>,
                          !.orig = {CellPath(id)} \cup share],
        h |-> [h EXCEPT !.cells = Append(@, schema)]]

SubOrig(sg, step) == {Below(p, step) : p \in sg.orig}

\* the places of the heap that hold the slot step of sg.Schema
Slot(sg, step) ==
    SubOrig(sg, step) \cup (IF step \in DOMAIN sg.palias THEN sg.palias[step] ELSE {})

ItemsStep == Step("items", "", 0)
AddPropsStep == Step("addProps", "", 0)
AddItemsStep == Step("addItems", "", 0)
TupleStep(i) == Step("tuple", "", i)
AllOfStep(i) == Step("allOf", "", i)
PropStep(k) == Step("prop", k, 0)

\* NewArrayBranch also stores into the GenSchema of sg, and dereferences its
\* ElemType
NewArrayBranch(sg, h, schema) ==
    LET c == shallowClone(sg, h, schema, Slot(sg, ItemsStep))
    IN [c EXCEPT !.pg.Required = FALSE]

NewArrayBranchParent(sg) ==
    [sg EXCEPT !.GenSchema.IsBaseType = Get(sg.GenSchema.rt.ElemType).HasDiscriminator]

\* share: the storage the schema shares (none for a fresh $ref)
NewAdditionalItems(sg, h, schema, share) ==
    LET c == shallowClone(sg, h, IF IsSome(schema) THEN Get(schema) ELSE EmptySchema,
                          share)
    IN [c EXCEPT !.pg.Name = sg.Name \o <<"items">>, !.pg.Required = FALSE]

NewTupleElement(sg, h, schema, index) ==
    LET c == shallowClone(sg, h, schema, Slot(sg, TupleStep(index + 1)))
    IN [c EXCEPT !.pg.Required = TRUE, !.pg.IsTuple = TRUE]

NewSchemaBranch(sg, h, name, schema, share) ==
    LET c == shallowClone(sg, h, schema, share)
    IN [c EXCEPT !.pg.Name = <<name>>,
                 !.pg.Required = name \in Sch(sg, h).required]

NewCompositionBranch(sg, h, schema, index, share) ==
    LET c == shallowClone(sg, h, schema, share)
    IN [c EXCEPT !.pg.Name = IF sg.Name # sg.ModelName
                              THEN sg.Name \o <<"AO" \o Itoa(index)>>
                              ELSE <<"AO" \o Itoa(index)>>,
                 !.pg.Index = index]

NewAdditionalProperty(sg, h, schema, share) == shallowClone(sg, h, schema, share)

\* hasValidations(&sg.Schema)
schemaValidations(sg, h) == Sch(sg, h).valid

mergeValidation(other) ==
    \/ IsSome(other.GenSchema.AdditionalProperties)
       /\ Get(other.GenSchema.AdditionalProperties).HasValidations
    \/ IsSome(other.GenSchema.AdditionalItems)
       /\ Get(other.GenSchema.AdditionalItems).HasValidations
    \/ \E i \in 1..Len(other.GenSchema.AllOf) : other.GenSchema.AllOf[i].HasValidations
    \/ other.GenSchema.HasValidations

\* a merge that lifts the Required flag at every call site
MergeRequired(sg, h, other, liftsRequired) ==
    [sg |-> [sg EXCEPT
               !.GenSchema.HasValidations = @ \/ mergeValidation(other),
               !.GenSchema.Required = @ \/ other.GenSchema.Required,
               !.GenSchema.HasBaseType = @ \/ other.GenSchema.HasBaseType],
     h |-> [h EXCEPT !.es[sg.es] = MapMerge(@, h.es[other.es])]]

\* sg.MergeResult(other, liftsRequired): the GenSchema of sg, and its
\* ExtraSchemas map in the heap
MergeResult(sg, h, other, liftsRequired) ==
    [sg |-> [sg EXCEPT
               !.GenSchema.HasValidations = @ \/ mergeValidation(other),
               !.GenSchema.Required =
                   IF liftsRequired
                      /\ ((IsSome(other.GenSchema.AdditionalProperties)
                           /\ Get(other.GenSchema.AdditionalProperties).Required)
                          \/ other.GenSchema.Required)
                   THEN TRUE ELSE @,
               !.GenSchema.HasBaseType = IF other.GenSchema.HasBaseType THEN TRUE ELSE @],
     h |-> [h EXCEPT !.es[sg.es] = MapMerge(@, h.es[other.es])]]

\* swag.ToVarName lower-cases the first letter of the name
Untitle(w) ==
    CASE w = "Foo" -> "foo" [] w = "Bar" -> "bar" [] w = "Baz" -> "baz"
      [] w = "Qux" -> "qux" [] w = "Animal" -> "animal" [] w = "Dog" -> "dog"
      [] w = "Cat" -> "cat"
      [] OTHER -> w

ToVarName(name) == IF name = <<>> THEN name ELSE <<Untitle(name[1])>> \o Tail(name)

\* sg.makeNewSchema(name, schema): stores the schema in the document, leaves
\* an empty GenSchema under the name in sg.ExtraSchemas, and returns a named
\* context with a map of its own.  share: the storage the schema shares.
makeNewSchema(sg, h, name0, schema, share) ==
    LET name1 == ToGoName(name0)
        name == IF sg.ModelName # sg.Name THEN ToGoName(sg.ModelName \o name1) ELSE name1
        id == Len(h.cells) + 1
        es == Len(h.es) + 1
        pg == [Ctx0 EXCEPT !.id = id, !.es = es, !.Name = name, !.Named = TRUE,
                           !.hasTR = (schema.ref = <<>>),
                           !.ModelName = IF schema.ref = <<>> THEN name ELSE <<>>,
                           !.orig = {CellPath(id), DocPath(name)} \cup share]
        h1 == DocPut(h, name, schema)
        h2 == [h1 EXCEPT !.cells = Append(@, schema), !.es = Append(@, <<>>)]
    IN [pg |-> pg, h |-> ESPut(sg, h2, name, GS0)]


\* ------------------------------------------ default and example values

\* A value of a yaml document: a string, a number, a list, or a map with its
\* entries in the order of the document (yaml.MapSlice).  A value of the
\* document as it is loaded: maps are objects, that keep no order.
Prop0(k, v) == [k |-> k, v |-> v]
Str(x) == [t |-> "string", s |-> x]
Num(i) == [t |-> "number", n |-> i]
List(items) == [t |-> "list", items |-> items]
MapItem(k, v) == [Key |-> k, Value |-> v]
MapSlice(entries) == [t |-> "map", entries |-> entries]
Object(fields) == [t |-> "object", fields |-> fields]
NilValue == [t |-> "nil"]
Fatal == [t |-> "fatal"]
Panic == [t |-> "panic"]

\* addXOrder2MapValue: every entry of a map becomes {value, x-order}, in
\* the maps of the value, of its entries and of the items of its lists
RECURSIVE addXOrder2MapValue(_)
addXOrder2MapValue(element) ==
    CASE element.t = "map" ->
           MapSlice([i \in 1..Len(element.entries) |->
                       MapItem(element.entries[i].Key,
                               MapSlice(<<MapItem("value",
                                                  addXOrder2MapValue(
                                                    element.entries[i].Value)),
                                          MapItem("x-order", Num(i - 1))>>))])
      [] element.t = "list" ->
           List([i \in 1..Len(element.items) |-> addXOrder2MapValue(element.items[i])])
      [] OTHER -> element

\* the document WithXOrder writes, as it is loaded: the maps are objects
RECURSIVE Loaded(_)
Loaded(value) ==
    CASE value.t = "map" ->
           Object([k \in {value.entries[i].Key : i \in 1..Len(value.entries)} |->
                     Loaded(value.entries[CHOOSE i \in 1..Len(value.entries) :
                                            value.entries[i].Key = k].Value)])
      [] value.t = "list" -> List([i \in 1..Len(value.items) |-> Loaded(value.items[i])])
      [] OTHER -> value

\* the keys of an object in an order of iteration: ascending, or descending
MapKeys(fields, desc) ==
    With([keys \in {SortNames({<<k>> : k \in DOMAIN fields})} |->
      [i \in 1..Len(keys) |-> keys[IF desc THEN Len(keys) + 1 - i ELSE i][1]]])

\* RecoverMapValueOrder, with the iteration over the keys of a map in
\* ascending or descending order.  A list is returned with its items as
\* they were: the result of the call on each item is dropped.
RECURSIVE RecoverMapValueOrder(_, _)
RECURSIVE recoverLoop(_, _, _, _, _)
recoverLoop(fields, keys, i, newValue, desc) ==
    IF i > Len(keys) THEN MapSlice(newValue)
    ELSE
      With([k \in {keys[i]}, v \in {fields[keys[i]]} |->
      IF v.t # "object" THEN Fatal
      ELSE IF "x-order" \in DOMAIN v.fields /\ v.fields["x-order"].t # "number" THEN Panic
      ELSE
      With([order \in {IF "x-order" \in DOMAIN v.fields THEN v.fields["x-order"].n ELSE 0},
            inner \in {RecoverMapValueOrder(
                         IF "value" \in DOMAIN v.fields THEN v.fields["value"] ELSE NilValue,
                         desc)} |->
      IF inner \in {Fatal, Panic} THEN inner
      ELSE IF order + 1 > Len(keys) THEN Panic
      ELSE recoverLoop(fields, keys, i + 1,
                       [newValue EXCEPT ![order + 1] = MapItem(k, inner)], desc)])])

RecoverMapValueOrder(oldValue, desc) ==
    CASE oldValue.t = "list" ->
           IF \E i \in 1..Len(oldValue.items) :
                 RecoverMapValueOrder(oldValue.items[i], desc) \in {Fatal, Panic}
           THEN CHOOSE r \in {RecoverMapValueOrder(oldValue.items[i], desc) :
                                i \in 1..Len(oldValue.items)} : r \in {Fatal, Panic}
           ELSE List(oldValue.items)
      [] oldValue.t = "object" ->
           With([keys \in {MapKeys(oldValue.fields, desc)} |->
             recoverLoop(oldValue.fields, keys, 1,
                         [i \in 1..Len(keys) |-> MapItem(NilValue, NilValue)], desc)])
      [] OTHER -> oldValue

\* the default of a schema, when it has one
HasDefault(schema) == "default" \in DOMAIN schema
WithDefault(schema, value) ==
    [f \in DOMAIN schema \cup {"default"} |->
       IF f = "default" THEN value ELSE schema[f]]

\* sg.GenSchema.Default = RecoverMapValueOrder(sg.Schema.Default) ends the
\* run: log.Fatalf, or an index out of range
recoverAborts(schema) ==
    IF HasDefault(schema)
    THEN With([r \in {RecoverMapValueOrder(schema.default, FALSE)} |->
           IF r = Fatal THEN "fatal" ELSE IF r = Panic THEN "panic" ELSE ""])
    ELSE ""

\* AddXOrderOnDefaultExample: the default of every definition and of the
\* properties of its properties, a map or a list, is given its x-order
RECURSIVE addXOrder(_)
addXOrder(element) ==
    With([e \in {IF HasDefault(element) /\ element.default.t \in {"map", "list"}
                 THEN [element EXCEPT !.default = addXOrder2MapValue(@)]
                 ELSE element} |->
      [e EXCEPT !.props = [i \in 1..Len(e.props) |->
                             Prop0(e.props[i].k, addXOrder(e.props[i].v))]]])

AddXOrderOnDefaultExample(defs) == [n \in DOMAIN defs |-> addXOrder(defs[n])]

\* the schemas of the document as it is loaded: the defaults are loaded
RECURSIVE LoadSchema(_)
LoadSchema(s) ==
    With([e \in {IF HasDefault(s) THEN [s EXCEPT !.default = Loaded(@)] ELSE s} |->
      [e EXCEPT
         !.props = [i \in 1..Len(e.props) |->
                      Prop0(e.props[i].k, LoadSchema(e.props[i].v))],
         !.allOf = [i \in 1..Len(e.allOf) |-> LoadSchema(e.allOf[i])],
         !.items = IF IsSome(e.items) /\ IsSome(Get(e.items).Schema)
                   THEN ItemsOne(LoadSchema(Get(Get(e.items).Schema)))
                   ELSE e.items,
         !.addProps = IF IsSome(e.addProps) /\ IsSome(Get(e.addProps).Schema)
                      THEN OrBoolSchema(LoadSchema(Get(Get(e.addProps).Schema)))
                      ELSE e.addProps]])

LoadSpec(defs) == [n \in DOMAIN defs |-> LoadSchema(defs[n])]

\* ----------------------------------------------------- schema generation

\* an outcome whose error is dropped: the step is taken for a success
RSilent(sg, h, err) ==
    [sg |-> sg, h |-> IF err # "" THEN [h EXCEPT !.failed = TRUE] ELSE h, err |-> ""]

\* The outcome of a step on context sg: the context, the heap, an error.
R(sg, h, err) ==
    [sg |-> sg, h |-> IF err # "" THEN [h EXCEPT !.failed = TRUE] ELSE h, err |-> err]

\* sg.TypeResolver.ResolveSchema(schema, isAnonymous, isRequired)
Resolve(sg, h, schema, isAnonymous, isRequired) ==
    IF ~sg.hasTR THEN Res(RT0, "panic")
    ELSE ResolveSchema(h.doc, sg.ModelName, schema, isAnonymous, isRequired, {})

RECURSIVE makeGenSchema(_, _, _)
RECURSIVE buildAllOf(_, _, _)
RECURSIVE buildAdditionalProperties(_, _, _)
RECURSIVE buildProperties(_, _, _)
RECURSIVE buildAdditionalItems(_, _, _)
RECURSIVE buildItems(_, _, _)
RECURSIVE buildArray(_, _, _)

\* liftSpecialAllOf: seen counts the branches that carry a type, properties,
\* a $ref or an allOf; lift is the branch to lift, none for the empty schema
RECURSIVE liftLoop(_, _, _, _, _)
liftLoop(sg, h, i, seen, lift) ==
    IF i > Len(Sch(sg, h).allOf) THEN [seen |-> seen, lift |-> lift, err |-> ""]
    ELSE
      With([sch \in {Sch(sg, h).allOf[i]} |->
      With([res \in {Resolve(sg, h, sch, TRUE, TRUE)} |->
      IF res.err # "" THEN [seen |-> seen, lift |-> lift, err |-> res.err]
      ELSE IF Len(sch.type) > 0 \/ Len(sch.props) > 0 \/ sch.ref # <<>>
              \/ Len(sch.allOf) > 0
      THEN IF seen + 1 > 1 THEN [seen |-> seen + 1, lift |-> lift, err |-> ""]
           ELSE liftLoop(sg, h, i + 1, seen + 1,
                         IF (~res.rt.IsAnonymous /\ res.rt.IsComplexObject)
                            \/ res.rt.IsPrimitive
                         THEN Some(i) ELSE lift)
      ELSE liftLoop(sg, h, i + 1, seen, lift)])])

\* a context whose schema is left as it is
liftNothing(sg, h) == R(sg, h, "")

liftSpecialAllOf(sg, h) ==
    IF Len(Sch(sg, h).allOf) < 2 THEN R(sg, h, "")
    ELSE
      With([l \in {liftLoop(sg, h, 1, 0, None)} |->
      IF l.err # "" THEN R(sg, h, l.err)
      ELSE IF l.seen = 1
      THEN With([set \in {IF IsSome(l.lift)
                          THEN SetSchema(sg, h, Sch(sg, h).allOf[Get(l.lift)],
                                         Slot(sg, AllOfStep(Get(l.lift))))
                          ELSE SetSchema(sg, h, EmptySchema, {})} |->
             R(set.sg, set.h, "")])
      ELSE R(sg, h, "")])

\* shortCircuitNamedRef: returns tells that makeGenSchema is done
SC(returns, sg, h, err) == [returns |-> returns, sg |-> sg, h |-> h, err |-> err]

shortCircuitNamedRef(env, sg, h) ==
    IF ~sg.Named \/ Sch(sg, h).ref = <<>> THEN SC(FALSE, sg, h, "")
    ELSE IF ~sg.hasTR THEN SC(FALSE, sg, h, "panic")
    ELSE
      With([asch \in {AnalyzeSchema(h.doc, Sch(sg, h), {})} |->
      IF asch.err # "" THEN SC(FALSE, sg, h, asch.err)
      ELSE IF asch.IsArray \/ asch.IsMap \/ asch.IsKnownType \/ asch.IsBaseType
      THEN
        With([tpx \in {Resolve(sg, h, Sch(sg, h), FALSE, TRUE)} |->
        IF tpx.err # "" THEN SC(FALSE, sg, h, tpx.err)
        ELSE
        With([tpe \in {[RT0 EXCEPT !.IsMap = asch.IsMap, !.IsArray = asch.IsArray,
                                   !.IsPrimitive = asch.IsKnownType,
                                   !.IsBaseType = tpx.rt.IsBaseType,
                                   !.KclType = kclTypeName(Sch(sg, h).ref),
                                   !.SwaggerType = tpx.rt.SwaggerType]},
              new \in {makeNewSchema(sg, h, sg.Name, EmptySchema, {})} |->
        With([made \in {makeGenSchema(env, new.pg, new.h)} |->
        IF made.err # "" THEN SC(TRUE, sg, made.h, made.err)
        ELSE
        With([mr \in {MergeResult(sg, made.h, made.sg, TRUE)} |->
          SC(TRUE,
             [mr.sg EXCEPT !.GenSchema = [made.sg.GenSchema EXCEPT
                                            !.rt = tpe,
                                            !.IsBaseType = tpe.IsBaseType]],
             mr.h, "")])])])])
      ELSE
        With([tpe \in {[RT0 EXCEPT !.KclType = kclTypeName(sg.Name),
                                   !.SwaggerType = "object",
                                   !.IsComplexObject = TRUE]},
              br \in {NewCompositionBranch(sg, h, Sch(sg, h), 0, sg.orig)} |->
        With([item \in {makeGenSchema(env, br.pg, br.h)} |->
        IF item.err # "" THEN SC(TRUE, sg, item.h, item.err)
        ELSE
        With([mr \in {MergeResult([sg EXCEPT !.GenSchema.rt = tpe], item.h, item.sg,
                                  TRUE)} |->
          SC(TRUE, [mr.sg EXCEPT !.GenSchema.AllOf = Append(@, item.sg.GenSchema)],
             mr.h, "")])])])])

makeGenSchema(env, sg0, h0) ==
    IF h0.KeepOrder /\ recoverAborts(Sch(sg0, h0)) # ""
    THEN R(sg0, h0, recoverAborts(Sch(sg0, h0)))
    ELSE
    With([sg1 \in {[sg0 EXCEPT !.GenSchema.IsExported = TRUE,
                               !.GenSchema.Name = sg0.Name,
                               !.GenSchema.HasValidations = schemaValidations(sg0, h0),
                               !.GenSchema.Required = sg0.Required]} |->
    With([sc \in {shortCircuitNamedRef(env, sg1, h0)} |->
    IF sc.err # "" \/ sc.returns THEN R(sc.sg, sc.h, sc.err)
    ELSE
    With([lf \in {liftSpecialAllOf(sg1, h0)} |->
    IF lf.err # "" THEN lf
    ELSE
    With([ba \in {buildAllOf(env, lf.sg, lf.h)} |->
    IF ba.err # "" THEN ba
    ELSE
    With([t1 \in {Resolve(ba.sg, ba.h, Sch(ba.sg, ba.h), ~ba.sg.Named,
                          ba.sg.IsTuple \/ ba.sg.Required \/ ba.sg.GenSchema.Required)} |->
    IF t1.err # "" THEN R(ba.sg, ba.h, t1.err)
    ELSE
    With([bp \in {buildAdditionalProperties(
                    env,
                    [ba.sg EXCEPT !.GenSchema.rt = t1.rt,
                                  !.GenSchema.IsBaseType = t1.rt.IsBaseType],
                    ba.h)} |->
    IF bp.err # "" THEN bp
    ELSE
    With([prev \in {bp.sg.GenSchema},
          t2 \in {Resolve(bp.sg, bp.h, Sch(bp.sg, bp.h), ~bp.sg.Named,
                          bp.sg.Named \/ bp.sg.IsTuple \/ bp.sg.Required
                            \/ bp.sg.GenSchema.Required)} |->
    IF t2.err # "" THEN R(bp.sg, bp.h, t2.err)
    ELSE
    With([pr \in {buildProperties(
                    env,
                    [bp.sg EXCEPT
                       !.GenSchema.rt =
                           [t2.rt EXCEPT !.IsComplexObject = prev.rt.IsComplexObject,
                                         !.IsMap = prev.rt.IsMap],
                       !.GenSchema.IsBaseType = t2.rt.HasDiscriminator],
                    bp.h)} |->
    IF pr.err # "" THEN pr
    ELSE
    With([ai \in {buildAdditionalItems(env, pr.sg, pr.h)} |->
    IF ai.err # "" THEN ai
    ELSE
    With([bi \in {buildItems(env, ai.sg, ai.h)} |->
    IF bi.err # "" THEN bi
    ELSE R([bi.sg EXCEPT !.GenSchema.rt.Extensions = Sch(bi.sg, bi.h).ext], bi.h, "")
    ])])])])])])])])])])


\* GenSchemaList.Less
Less(a, b) ==
    LET okA == IsSome(a.rt.Extensions.xorder)
        okB == IsSome(b.rt.Extensions.xorder)
    IN IF okA /\ okB THEN Get(a.rt.Extensions.xorder) < Get(b.rt.Extensions.xorder)
       ELSE IF okA THEN TRUE
       ELSE IF okB THEN FALSE
       ELSE NameLess(a.Name, b.Name)

\* sort.Sort on a short list: insertion sort
RECURSIVE insertLeft(_, _)
insertLeft(s, x) ==
    IF s = <<>> THEN <<x>>
    ELSE IF Less(x, s[Len(s)])
    THEN Append(insertLeft(SubSeq(s, 1, Len(s) - 1), x), s[Len(s)])
    ELSE Append(s, x)

RECURSIVE SortList(_)
SortList(g) ==
    IF g = <<>> THEN <<>>
    ELSE insertLeft(SortList(SubSeq(g, 1, Len(g) - 1)), g[Len(g)])

\* the loop of buildAllOf, at branch i (from 1)
RECURSIVE allOfLoop(_, _, _, _)
allOfLoop(env, sg, h, i) ==
    IF i > Len(Sch(sg, h).allOf) THEN R(sg, h, "")
    ELSE
      With([sch \in {Sch(sg, h).allOf[i]}, slot \in {Slot(sg, AllOfStep(i))} |->
      With([tpe \in {Resolve(sg, h, sch, sch.ref = <<>>, FALSE)} |->
      IF tpe.err # "" THEN R(sg, h, tpe.err)
      ELSE IF (tpe.rt.IsAnonymous /\ Len(sch.allOf) > 0)
              \/ (sch.ref = <<>> /\ ~tpe.rt.IsComplexObject
                  /\ (tpe.rt.IsArray \/ tpe.rt.IsPrimitive))
      THEN
        With([new \in {makeNewSchema(sg, h, ToVarName(sg.Name \o <<"AllOf" \o Itoa(i - 1)>>),
                                     sch, slot)} |->
        With([ng \in {makeGenSchema(env, new.pg, new.h)} |->
        IF ng.err # "" THEN R(sg, ng.h, ng.err)
        ELSE
        With([newsch \in {RefProperty(new.pg.Name)} |->
        With([br \in {NewCompositionBranch(sg, HeapSet(ng.h, slot, newsch), newsch,
                                           i - 1, {})} |->
        With([pg \in {makeGenSchema(env, br.pg, br.h)} |->
        IF pg.err # "" THEN R(sg, pg.h, pg.err)
        ELSE
        With([m1 \in {MergeResult(pg.sg, pg.h, ng.sg, TRUE)} |->
        With([m2 \in {MergeResult(sg, ESPut(m1.sg, m1.h, ng.sg.Name, ng.sg.GenSchema),
                                  m1.sg, TRUE)} |->
          allOfLoop(env, [m2.sg EXCEPT !.GenSchema.AllOf = Append(@, m1.sg.GenSchema)],
                    m2.h, i + 1)])])])])])])])
      ELSE
        With([br \in {NewCompositionBranch(sg, h, sch, i - 1, slot)} |->
        With([comprop \in {makeGenSchema(env, br.pg, br.h)} |->
        IF comprop.err # "" THEN R(sg, comprop.h, comprop.err)
        ELSE
        With([m \in {MergeResult(sg, comprop.h, comprop.sg, TRUE)} |->
          allOfLoop(env, [m.sg EXCEPT !.GenSchema.AllOf = Append(@, comprop.sg.GenSchema)],
                    m.h, i + 1)])])])])])

buildAllOf(env, sg, h) ==
    IF Len(Sch(sg, h).allOf) = 0 THEN R(sg, h, "")
    ELSE allOfLoop(env, [sg EXCEPT !.GenSchema.AllOf = SortList(@)], h, 1)

\* the chain of $refs from ref to a schema that is no $ref
RECURSIVE FollowRefs(_, _, _)
FollowRefs(doc, ref, vis) ==
    IF ref \in vis THEN [sch |-> EmptySchema, err |-> "overflow"]
    ELSE With([rr \in {ResolveRef(doc, ref)} |->
           IF rr.err # "" THEN rr
           ELSE IF rr.sch.ref # <<>> THEN FollowRefs(doc, rr.sch.ref, vis \cup {ref})
           ELSE rr])

\* the hoisting of buildProperties: an anonymous object with properties is
\* made a definition of its own, and the property a $ref to it.  The outcome
\* is the context, the heap, the schema of the property and the storage it
\* shares.
Hoist(sg, h, v, share, err) == [sg |-> sg, h |-> h, v |-> v, share |-> share, err |-> err]

hoistProperty(env, sg, h, k, v, slot) ==
    With([new \in {makeNewSchema(sg, h, sg.Name \o ToGoName(<<k>>), v, slot)} |->
    With([pg \in {makeGenSchema(env, [new.pg EXCEPT !.IsTuple = sg.IsTuple], new.h)} |->
    IF pg.err # "" THEN Hoist(sg, pg.h, v, slot, pg.err)
    ELSE
    With([pgs \in {IF v.disc # ""
                   THEN [pg.sg EXCEPT !.GenSchema.IsBaseType = TRUE,
                                      !.GenSchema.IsExported = TRUE,
                                      !.GenSchema.HasBaseType = TRUE]
                   ELSE pg.sg} |->
    With([mp \in {MergeResult(sg, ESPut(sg, pg.h, pgs.Name, pgs.GenSchema), pgs,
                              FALSE)} |->
      Hoist(mp.sg, mp.h, RefProperty(pgs.Name), {}, "")])])])])

\* the loop of buildProperties over sg.Schema.Properties, ranged in order
RECURSIVE propLoop(_, _, _, _, _)
propLoop(env, sg, h, order, n) ==
    IF n > Len(order)
    THEN R([sg EXCEPT !.GenSchema.Properties = SortList(@)], h, "")
    ELSE
      With([k \in {Sch(sg, h).props[order[n]].k},
            v \in {Sch(sg, h).props[order[n]].v} |->
      With([tpe \in {Resolve(sg, h, v, TRUE, sg.IsTuple \/ k \in Sch(sg, h).required)},
            slot \in {Slot(sg, PropStep(k))} |->
      IF tpe.err # "" THEN R(sg, h, tpe.err)
      ELSE
      With([hp \in {IF tpe.rt.IsComplexObject /\ tpe.rt.IsAnonymous /\ Len(v.props) > 0
                    THEN hoistProperty(env, sg, h, k, v, slot)
                    ELSE Hoist(sg, h, v, slot, "")} |->
      IF hp.err # "" THEN R(sg, hp.h, hp.err)
      ELSE
      With([br \in {NewSchemaBranch(hp.sg, hp.h, k, hp.v, hp.share)} |->
      With([em \in {makeGenSchema(env, [br.pg EXCEPT !.IsTuple = sg.IsTuple], br.h)} |->
      IF em.err # "" THEN R(hp.sg, em.h, em.err)
      ELSE
      With([esch \in {Sch(em.sg, em.h)} |->
      With([target \in {IF esch.ref # <<>> THEN FollowRefs(em.h.doc, esch.ref, {})
                        ELSE [sch |-> EmptySchema, err |-> ""]} |->
      IF target.err # "" THEN R(hp.sg, em.h, target.err)
      ELSE
      With([chk \in {IF esch.ref # <<>>
                     THEN ResolveSchema(em.h.doc, ToGoName(esch.ref), target.sch,
                                        FALSE, TRUE, {})
                     ELSE Res(RT0, "")} |->
      IF chk.err # "" THEN R(hp.sg, em.h, chk.err)
      ELSE
      With([g1 \in {IF esch.ref # <<>>
                    THEN [em.sg.GenSchema EXCEPT
                            !.IsBaseType = @ \/ esch.ref \in DOMAIN env.di.Discriminators,
                            !.HasBaseType = @ \/ esch.ref \in DOMAIN env.di.Discriminators,
                            !.IsSubType = @ \/ esch.ref \in DOMAIN env.di.Discriminated,
                            !.HasValidations = @ \/ target.sch.valid]
                    ELSE em.sg.GenSchema} |->
      With([m \in {MergeResult([hp.sg EXCEPT !.GenSchema.HasBaseType = @ \/ g1.IsBaseType],
                               em.h, [em.sg EXCEPT !.GenSchema = g1], FALSE)} |->
        propLoop(env,
                 [m.sg EXCEPT !.GenSchema.Properties =
                                  Append(@, [g1 EXCEPT !.rt.Extensions = esch.ext])],
                 m.h, order, n + 1)])])])])])])])])])])

buildProperties(env, sg, h) ==
    propLoop(env, sg, h, RangeProps(Sch(sg, h), env.perm), 1)


\* sg.TypeResolver.ResolveSchema on a pointer that may be nil
ResolveO(sg, h, sopt, isAnonymous, isRequired) ==
    IF ~sg.hasTR THEN Res(RT0, "panic")
    ELSE ResolveOpt(h.doc, sg.ModelName, sopt, isAnonymous, isRequired, {})

\* the walk down gs.Items that follows an array: every array on the way has
\* its Items dereferenced
RECURSIVE ItemsChainOK(_)
ItemsChainOK(gs) ==
    IF gs.rt.IsArray THEN IsSome(gs.Items) /\ ItemsChainOK(Get(gs.Items)) ELSE TRUE

\* mapStack: ctxs are the Contexts of the stack, first to last; the last
\* level alone can hold NewObj and ValueRef.
MS(ctxs, NewObj, ValueRef, h, err) ==
    [ctxs |-> ctxs, NewObj |-> NewObj, ValueRef |-> ValueRef, h |-> h, err |-> err]

HasMore(type) ==
    IsSome(type.addProps)
    /\ (IsSome(Get(type.addProps).Schema) \/ Get(type.addProps).Allows)

RECURSIVE newMapStack(_, _)
newMapStack(ctxs, h) ==
    With([l \in {ctxs[Len(ctxs)]} |->
    IF ~HasMore(Sch(l, h)) THEN MS(ctxs, None, None, h, "")
    ELSE
      With([sub \in {Get(Sch(l, h).addProps).Schema}, slot \in {Slot(l, AddPropsStep)} |->
      With([tpe \in {ResolveO(l, h, sub, TRUE, TRUE)} |->
      IF tpe.err # "" THEN MS(ctxs, None, None, h, tpe.err)
      ELSE IF ~tpe.rt.IsMap
      THEN IF tpe.rt.IsComplexObject /\ tpe.rt.IsAnonymous
           THEN With([nw \in {makeNewSchema(l, h, l.Name \o <<"Anon">>, Get(sub), slot)} |->
                With([sch \in {RefProperty(nw.pg.Name)} |->
                With([vr \in {NewAdditionalProperty(l, HeapSet(nw.h, slot, sch), sch, {})} |->
                  MS(ctxs, Some(nw.pg), Some(vr.pg), vr.h, "")])])])
           ELSE MS(ctxs, None, None, h, "")
      ELSE With([nx \in {NewAdditionalProperty(l, h, Get(sub), slot)} |->
             newMapStack(Append(ctxs, nx.pg), nx.h)])])])])

\* the steps of mapStack.Build on NewObj and ValueRef at the last level:
\* done tells that Build ends there, with ms; otherwise the context of the
\* level, the heap, and the GenSchema of ValueRef
NV(done, ms, sg, h, vrs) == [done |-> done, ms |-> ms, sg |-> sg, h |-> h, vrs |-> vrs]

buildNewObj(env, ms, cur) ==
    With([no \in {makeGenSchema(env, Get(ms.NewObj), ms.h)} |->
    IF no.err # "" THEN NV(TRUE, [ms EXCEPT !.h = no.h, !.err = no.err], cur, no.h, cur)
    ELSE
    With([vr \in {makeGenSchema(env, Get(ms.ValueRef), no.h)} |->
    IF vr.err # "" THEN NV(TRUE, [ms EXCEPT !.h = vr.h], cur, vr.h, cur)
    ELSE
    With([m1 \in {MergeResult(cur, vr.h, no.sg, FALSE)} |->
    With([c1 \in {makeGenSchema(env, m1.sg,
                                ESPut(cur, m1.h, no.sg.Name, no.sg.GenSchema))} |->
    IF c1.err # "" THEN NV(TRUE, [ms EXCEPT !.h = c1.h, !.err = c1.err], cur, c1.h, cur)
    ELSE
    With([vrs \in {[vr.sg EXCEPT !.GenSchema.HasValidations =
                                    no.sg.GenSchema.HasValidations]} |->
    With([m2 \in {MergeResult(c1.sg, c1.h, vrs, FALSE)} |->
      NV(FALSE, ms,
         [m2.sg EXCEPT !.GenSchema.AdditionalProperties = Some(vrs.GenSchema)],
         m2.h, vrs)])])])])])])

\* the loop of mapStack.Build at level j, from the last level to the first;
\* an error of ValueRef.makeGenSchema ends Build without an error
RECURSIVE BuildLoop(_, _, _)
BuildLoop(env, ms, j) ==
    IF j = 0 THEN ms
    ELSE
      With([n \in {Len(ms.ctxs)}, cur \in {ms.ctxs[j]} |->
      With([hasNew \in {j = n /\ IsSome(ms.NewObj)} |->
      With([nv \in {IF hasNew THEN buildNewObj(env, ms, cur)
                    ELSE NV(FALSE, ms, cur, ms.h, cur)} |->
      IF nv.done THEN nv.ms
      ELSE
      With([c2 \in {IF j > 1 THEN makeGenSchema(env, nv.sg, nv.h)
                    ELSE R(nv.sg, nv.h, "")} |->
      IF c2.err # "" THEN [ms EXCEPT !.h = c2.h, !.err = c2.err]
      ELSE
      With([m3 \in {IF j < n THEN MergeResult(c2.sg, c2.h, ms.ctxs[j + 1], FALSE)
                    ELSE [sg |-> c2.sg, h |-> c2.h]} |->
      With([sgB \in {IF j < n
                     THEN [m3.sg EXCEPT !.GenSchema.AdditionalProperties =
                                            Some(ms.ctxs[j + 1].GenSchema)]
                     ELSE m3.sg} |->
      With([m4 \in {IF hasNew THEN MergeResult(sgB, m3.h, nv.vrs, FALSE)
                    ELSE [sg |-> sgB, h |-> m3.h]} |->
      With([sgC \in {IF hasNew
                     THEN [m4.sg EXCEPT !.GenSchema.AdditionalProperties =
                                            Some(nv.vrs.GenSchema)]
                     ELSE m4.sg} |->
        BuildLoop(env, [ms EXCEPT !.ctxs[j] = sgC, !.h = m4.h], j - 1)
      ])])])])])])])])

\* ls.Build() for the stack of sg
Build(env, ms) ==
    IF ~IsSome(ms.NewObj) /\ Len(ms.ctxs) = 1
    THEN
      With([sg \in {ms.ctxs[1]} |->
      With([csch \in {Get(Sch(sg, ms.h).addProps).Schema} |->
      With([asch \in {AnalyzeSchema(ms.h.doc, Get(csch), {})} |->
      IF asch.err # "" THEN R(sg, ms.h, asch.err)
      ELSE
      With([br \in {NewAdditionalProperty(sg, ms.h, Get(csch), Slot(sg, AddPropsStep))} |->
      With([cp \in {makeGenSchema(env, [br.pg EXCEPT !.Required = ~asch.IsSimpleSchema
                                                                  /\ ~asch.IsMap], br.h)} |->
      IF cp.err # "" THEN R(sg, cp.h, cp.err)
      ELSE
      With([m \in {MergeResult(sg, cp.h, cp.sg, FALSE)} |->
        R([m.sg EXCEPT !.GenSchema.AdditionalProperties = Some(cp.sg.GenSchema)],
          m.h, "")])])])])])])
    ELSE
      With([b \in {BuildLoop(env, ms, Len(ms.ctxs))} |-> R(b.ctxs[1], b.h, b.err)])

buildAdditionalProperties(env, sg0, h0) ==
    IF ~IsSome(Sch(sg0, h0).addProps) THEN R(sg0, h0, "")
    ELSE
      With([addp \in {Get(Sch(sg0, h0).addProps)} |->
      With([wantsAdditional \in {IsSome(addp.Schema) \/ addp.Allows} |->
      With([sgw \in {[sg0 EXCEPT !.GenSchema.HasAdditionalProperties = wantsAdditional]} |->
      IF ~wantsAdditional THEN R(sgw, h0, "")
      ELSE
      With([sg \in {IF sgw.GenSchema.rt.IsComplexObject
                    THEN [sgw EXCEPT !.GenSchema.IsAdditionalProperties = TRUE,
                                     !.GenSchema.rt.IsComplexObject = FALSE,
                                     !.GenSchema.rt.IsMap = FALSE]
                    ELSE sgw} |->
      With([slot \in {Slot(sg, AddPropsStep)} |->
      IF ~IsSome(addp.Schema)
      THEN \* additionalProperties: true
        With([sgm \in {[sg EXCEPT !.GenSchema.HasAdditionalProperties = TRUE,
                                  !.GenSchema.rt.IsComplexObject = FALSE,
                                  !.GenSchema.rt.IsMap = TRUE]} |->
        With([br \in {NewAdditionalProperty(sgm, h0, Typed("object"), {})} |->
        With([cp \in {makeGenSchema(env,
                                    [br.pg EXCEPT !.Name = @ \o <<"AdditionalProperties">>,
                                                  !.Required = FALSE], br.h)} |->
        IF cp.err # "" THEN R(sgm, cp.h, cp.err)
        ELSE
        With([m \in {MergeResult(sgm, cp.h, cp.sg, FALSE)} |->
          R([m.sg EXCEPT !.GenSchema.AdditionalProperties = Some(cp.sg.GenSchema)],
            m.h, "")])])])])
      ELSE IF ~sg.GenSchema.rt.IsMap /\ sg.GenSchema.IsAdditionalProperties /\ sg.Named
      THEN
        With([sub \in {Get(addp.Schema)} |->
        With([tpe \in {Resolve(sg, h0, sub, sub.ref = <<>>, FALSE)} |->
        IF tpe.err # "" THEN R(sg, h0, tpe.err)
        ELSE IF tpe.rt.IsComplexObject /\ tpe.rt.IsAnonymous
        THEN
          With([new \in {makeNewSchema(sg, h0, sg.Name \o <<"Anon">>, sub, slot)} |->
          With([pg \in {makeGenSchema(env, new.pg, new.h)} |->
          IF pg.err # "" THEN R(sg, pg.h, pg.err)
          ELSE
          With([m1 \in {MergeResult(sg, pg.h, pg.sg, FALSE)},
                ref \in {RefProperty(pg.sg.Name)} |->
          With([sgv \in {[m1.sg EXCEPT !.IsVirtual = TRUE]} |->
          With([br \in {NewAdditionalProperty(
                          sgv,
                          HeapSet(ESPut(sg, m1.h, pg.sg.Name, pg.sg.GenSchema), slot, ref),
                          ref, {})} |->
          With([comprop \in {makeGenSchema(env, br.pg, br.h)} |->
          IF comprop.err # "" THEN R(sgv, comprop.h, comprop.err)
          ELSE
          With([cgs \in {[comprop.sg.GenSchema EXCEPT !.Required = TRUE,
                                                      !.HasValidations = TRUE]} |->
          With([m2 \in {MergeResult(
                          [sgv EXCEPT !.GenSchema.AdditionalProperties = Some(cgs),
                                      !.GenSchema.HasAdditionalProperties = TRUE],
                          comprop.h, [comprop.sg EXCEPT !.GenSchema = cgs], FALSE)} |->
            R(m2.sg, m2.h, "")])])])])])])])])
        ELSE
          With([asch \in {AnalyzeSchema(h0.doc, sub, {})} |->
          IF asch.err # "" THEN R(sg, h0, asch.err)
          ELSE
          With([br \in {NewAdditionalProperty(sg, h0, sub, slot)} |->
          With([comprop \in {makeGenSchema(env,
                                           [br.pg EXCEPT !.Required = ~asch.IsSimpleSchema
                                                                      /\ ~asch.IsMap],
                                           br.h)} |->
          IF comprop.err # "" THEN R(sg, comprop.h, comprop.err)
          ELSE
          With([m \in {MergeResult(sg, comprop.h, comprop.sg, FALSE)} |->
          IF ~ItemsChainOK(comprop.sg.GenSchema) THEN R(m.sg, m.h, "panic")
          ELSE R([m.sg EXCEPT !.GenSchema.AdditionalProperties =
                                  Some(comprop.sg.GenSchema)], m.h, "")])])])])])])
      ELSE IF sg.GenSchema.rt.IsMap
      THEN With([ms \in {newMapStack(<<sg>>, h0)} |->
             IF ms.err # "" THEN R(sg, ms.h, ms.err) ELSE Build(env, ms)])
      ELSE IF sg.GenSchema.IsAdditionalProperties /\ ~sg.Named
      THEN
        With([new \in {makeNewSchema(sg, h0,
                                     sg.GenSchema.Name \o <<"P" \o Itoa(sg.Index)>>,
                                     Sch(sg, h0), sg.orig)} |->
        With([newObj \in {makeGenSchema(env, [new.pg EXCEPT !.palias = sg.palias],
                                        new.h)} |->
        IF newObj.err # "" THEN R(sg, newObj.h, newObj.err)
        ELSE
        With([set \in {SetSchema([sg EXCEPT !.GenSchema = GS0], newObj.h,
                                 RefProperty(newObj.sg.Name), {})} |->
        With([again \in {makeGenSchema(env, set.sg, set.h)} |->
        IF again.err # "" THEN again
        ELSE
        With([m \in {MergeResult(again.sg, again.h, newObj.sg, FALSE)} |->
          R([m.sg EXCEPT !.GenSchema.HasValidations =
                             newObj.sg.GenSchema.HasValidations],
            ESPut(sg, m.h, newObj.sg.Name, newObj.sg.GenSchema), "")])])])])])
      ELSE R(sg, h0, "")])])])])])


\* the hoisting of buildAdditionalItems: an anonymous object is made a
\* definition of its own, and additionalItems a $ref to it
hoistAdditionalItems(env, sg, h, sub, slot) ==
    With([new \in {makeNewSchema(sg, h, sg.Name \o <<"Items">>, Get(sub), slot)} |->
    With([pg \in {makeGenSchema(env, new.pg, new.h)} |->
    IF pg.err # "" THEN Hoist(sg, pg.h, sub, slot, pg.err)
    ELSE
    With([pgs \in {[pg.sg EXCEPT !.GenSchema.HasValidations = TRUE]} |->
    With([ref \in {RefProperty(pgs.Name)} |->
    With([mp \in {MergeResult(sg, HeapSet(pg.h, slot, ref), pgs, FALSE)} |->
      Hoist(mp.sg, ESPut(sg, mp.h, pgs.Name, pgs.GenSchema), Some(ref), {}, "")
    ])])])])])

buildAdditionalItems(env, sg0, h0) ==
    With([schema \in {Sch(sg0, h0)} |->
    With([wantsAdditionalItems \in
            {IsSome(schema.addItems)
             /\ (Get(schema.addItems).Allows \/ IsSome(Get(schema.addItems).Schema))} |->
    With([sg \in {[sg0 EXCEPT !.GenSchema.HasAdditionalItems = wantsAdditionalItems]} |->
    IF ~wantsAdditionalItems THEN R(sg, h0, "")
    ELSE
      With([sub \in {Get(schema.addItems).Schema}, slot \in {Slot(sg, AddItemsStep)} |->
      With([tpe \in {ResolveO(sg, h0, sub, TRUE, TRUE)} |->
      IF tpe.err # "" THEN R(sg, h0, tpe.err)
      ELSE
      With([hp \in {IF tpe.rt.IsComplexObject /\ tpe.rt.IsAnonymous
                    THEN hoistAdditionalItems(env, sg, h0, sub, slot)
                    ELSE Hoist(sg, h0, sub, slot, "")} |->
      IF hp.err # "" THEN R(sg, hp.h, hp.err)
      ELSE
      With([br \in {NewAdditionalItems(hp.sg, hp.h, hp.v, hp.share)} |->
      With([it \in {makeGenSchema(env, br.pg, br.h)} |->
      IF it.err # "" THEN R(hp.sg, it.h, it.err)
      ELSE
      With([m \in {MergeResult(hp.sg, it.h, it.sg, TRUE)} |->
        R([m.sg EXCEPT !.GenSchema.AdditionalItems = Some(it.sg.GenSchema)], m.h, "")
      ])])])])])])])])])

buildArray(env, sg, h) ==
    With([items \in {Get(Get(Sch(sg, h).items).Schema)}, slot \in {Slot(sg, ItemsStep)} |->
    With([tpe \in {Resolve(sg, h, items, TRUE, FALSE)} |->
    IF tpe.err # "" THEN R(sg, h, tpe.err)
    ELSE IF tpe.rt.IsComplexObject /\ tpe.rt.IsAnonymous
    THEN
      With([new \in {makeNewSchema(sg, h, sg.Name \o <<"items" \o Itoa(sg.Index)>>,
                                   items, slot)} |->
      With([pg \in {makeGenSchema(env, new.pg, new.h)} |->
      IF pg.err # "" THEN R(sg, pg.h, pg.err)
      ELSE
      With([m \in {MergeResult(sg, pg.h, pg.sg, FALSE)} |->
        makeGenSchema(env, [m.sg EXCEPT !.IsVirtual = TRUE],
                      HeapSet(ESPut(sg, m.h, pg.sg.Name, pg.sg.GenSchema), slot,
                              RefProperty(pg.sg.Name)))])])])
    ELSE IF ~IsSome(sg.GenSchema.rt.ElemType) THEN R(sg, h, "panic")
    ELSE
      With([br \in {NewArrayBranch(sg, h, items)} |->
      With([elProp \in {makeGenSchema(env, br.pg, br.h)} |->
      IF elProp.err # "" THEN R(sg, elProp.h, elProp.err)
      ELSE
      With([m \in {MergeResult(NewArrayBranchParent(sg), elProp.h, elProp.sg, FALSE)},
            schemaCopy \in {[elProp.sg.GenSchema EXCEPT
                               !.Required = FALSE,
                               !.HasValidations =
                                   Get(Get(Sch(sg, elProp.h).items).Schema).valid]} |->
        R([m.sg EXCEPT
             !.GenSchema.IsBaseType = elProp.sg.GenSchema.IsBaseType,
             !.GenSchema.rt.KclType = <<"[">> \o elProp.sg.GenSchema.rt.KclType
                                      \o <<"]">>,
             !.GenSchema.rt.IsArray = TRUE,
             !.GenSchema.HasValidations = @ \/ schemaCopy.HasValidations,
             !.GenSchema.Items = Some(schemaCopy)], m.h, "")])])])])])

\* the hoisting of buildItems: an anonymous object among the schemas of a
\* named tuple is made a definition of its own, and the element a $ref to it
hoistTupleElement(env, sg, br, s, i) ==
    With([new \in {makeNewSchema(sg, br.h, sg.Name \o <<"Items" \o Itoa(i - 1)>>, s,
                                 Slot(sg, TupleStep(i)))} |->
    With([pg \in {makeGenSchema(env, new.pg, new.h)} |->
    IF pg.err # "" THEN Hoist(sg, pg.h, s, {}, pg.err)
    ELSE
    With([set \in {SetSchema(br.pg, pg.h, RefProperty(pg.sg.Name), {})} |->
    With([mp \in {MergeResult(set.sg, set.h, pg.sg, FALSE)} |->
      Hoist(mp.sg, ESPut(mp.sg, mp.h, pg.sg.Name, pg.sg.GenSchema), s, {}, "")
    ])])])])

\* the loop of buildItems over the schemas of a named tuple, at element i
RECURSIVE tupleLoop(_, _, _, _)
tupleLoop(env, sg, h, i) ==
    IF i > Len(Get(Sch(sg, h).items).Schemas) THEN R(sg, h, "")
    ELSE
      With([s \in {Get(Sch(sg, h).items).Schemas[i]} |->
      With([br \in {NewTupleElement(sg, h, s, i - 1)} |->
      With([tpe \in {Resolve(sg, br.h, s, TRUE, TRUE)} |->
      IF s.ref = <<>> /\ tpe.err # "" THEN R(sg, h, tpe.err)
      ELSE
      With([hp \in {IF s.ref = <<>> /\ tpe.rt.IsComplexObject /\ tpe.rt.IsAnonymous
                    THEN hoistTupleElement(env, sg, br, s, i)
                    ELSE Hoist(br.pg, br.h, s, {}, "")} |->
      IF hp.err # "" THEN R(sg, hp.h, hp.err)
      ELSE
      With([elProp \in {makeGenSchema(env, hp.sg, hp.h)} |->
      IF elProp.err # "" THEN R(sg, elProp.h, elProp.err)
      ELSE
      With([m \in {MergeResult(sg, elProp.h, elProp.sg, FALSE)},
            egs \in {[elProp.sg.GenSchema EXCEPT !.Name = <<"p" \o Itoa(i - 1)>>]} |->
        tupleLoop(env, [m.sg EXCEPT !.GenSchema.Properties = Append(@, egs),
                                    !.GenSchema.rt.IsTuple = TRUE], m.h, i + 1)
      ])])])])])])

\* additionalItems taken for absent whatever the schema says
noAdditionalItems(schema) == FALSE

\* sg.Schema.AdditionalItems != nil
hasAdditionalItems(schema) == IsSome(schema.addItems)

\* the object an anonymous tuple is made: a required property per element
tupleObject(schema) ==
    With([schemas \in {Get(schema.items).Schemas} |->
      [Typed("object") EXCEPT
         !.props = [i \in 1..Len(schemas) |->
                      [k |-> "P" \o Itoa(i - 1), v |-> schemas[i]]],
         !.required = {"P" \o Itoa(i - 1) : i \in 1..Len(schemas)},
         !.addItems = schema.addItems]])

\* the storage the properties of that object share with the tuple
tupleAlias(sg, schema) ==
    With([schemas \in {Get(schema.items).Schemas} |->
      [st \in {PropStep("P" \o Itoa(i - 1)) : i \in 1..Len(schemas)}
              \cup {AddItemsStep} |->
         IF st = AddItemsStep THEN Slot(sg, AddItemsStep)
         ELSE Slot(sg, TupleStep(CHOOSE i \in 1..Len(schemas) :
                                    st = PropStep("P" \o Itoa(i - 1))))]])

buildItems(env, sg, h) ==
    With([schema \in {Sch(sg, h)} |->
    IF ~IsSome(schema.items) THEN R(sg, h, "")
    ELSE
      With([presentsAsSingle \in {IsSome(Get(schema.items).Schema)} |->
      IF presentsAsSingle /\ hasAdditionalItems(schema)
      THEN R(sg, h, "single schema can't have additional items")
      ELSE IF presentsAsSingle THEN buildArray(env, sg, h)
      ELSE IF sg.Named
      THEN tupleLoop(env, [sg EXCEPT !.GenSchema.Name = sg.Name,
                                     !.GenSchema.rt.KclType = kclTypeName(sg.Name)], h, 1)
      ELSE
        With([new \in {makeNewSchema(sg, h,
                                     sg.GenSchema.Name \o <<"Tuple" \o Itoa(sg.Index)>>,
                                     tupleObject(schema), {})} |->
        With([tup \in {makeGenSchema(env,
                                     [new.pg EXCEPT !.IsTuple = TRUE,
                                                    !.palias = tupleAlias(sg, schema)],
                                     new.h)} |->
        IF tup.err # "" THEN R(sg, tup.h, tup.err)
        ELSE
        With([tgs \in {[tup.sg.GenSchema EXCEPT !.rt.IsTuple = TRUE,
                                                !.rt.IsComplexObject = FALSE]} |->
        With([set \in {SetSchema(sg, ESPut(sg, tup.h, tup.sg.Name, tgs),
                                 RefProperty(tup.sg.Name), {})} |->
        With([again \in {makeGenSchema(env, set.sg, set.h)} |->
        IF again.err # "" THEN again
        ELSE
        With([m \in {MergeResult(again.sg, again.h, [tup.sg EXCEPT !.GenSchema = tgs],
                                 FALSE)} |->
          R(m.sg, m.h, "")])])])])])])])])


\* ------------------------------------------------------- definitions

\* gatherExtraSchemas: the values of the map, by sorted key
gatherExtraSchemas(extraMap) ==
    LET extraKeys == SortNames(DOMAIN extraMap)
    IN [i \in 1..Len(extraKeys) |-> extraMap[extraKeys[i]]]

\* GenDefinition, or the error makeGenDefinition returns in its place
GenDefinition(gs, extras) == [GenSchema |-> gs, ExtraSchemas |-> extras]
D(def, h, err) == [def |-> def, h |-> h, err |-> err]

RECURSIVE makeGenDefinitionHierarchy(_, _, _, _, _, _)

\* the loop over schema.AllOf of a subtype, at branch i (from 1): a branch
\* whose $ref leads to a schema with a discriminator is generated as a
\* definition and stored in pg.GenSchema.AllOf at the same index.
\* st: [gs, known, h, err]
RECURSIVE baseLoop(_, _, _, _, _, _)
baseLoop(allOf, st, i, gsName, perm, vis) ==
    IF i > Len(allOf) \/ st.err # "" THEN st
    ELSE IF allOf[i].ref = <<>> THEN baseLoop(allOf, st, i + 1, gsName, perm, vis)
    ELSE
      With([ss \in {allOf[i]} |->
      With([target \in {FollowRefs(st.h.doc, ss.ref, {})} |->
      IF target.err # "" THEN [st EXCEPT !.err = target.err]
      ELSE IF target.sch.disc = "" THEN baseLoop(allOf, st, i + 1, gsName, perm, vis)
      ELSE
      With([base \in {makeGenDefinitionHierarchy(ss.ref, target.sch, st.h, {}, perm,
                                                 vis)} |->
      IF base.err # "" THEN [st EXCEPT !.h = base.h, !.err = base.err]
      ELSE IF i > Len(st.gs.AllOf) THEN [st EXCEPT !.h = base.h, !.err = "panic"]
      ELSE
      With([bgs \in {[Get(base.def).GenSchema EXCEPT
                        !.IsBaseType = TRUE, !.IsExported = TRUE,
                        !.AdditionalItems =
                            IF IsSome(@) THEN Some([Get(@) EXCEPT !.IsBaseType = TRUE])
                            ELSE @,
                        !.AdditionalProperties =
                            IF IsSome(@) THEN Some([Get(@) EXCEPT !.IsBaseType = TRUE])
                            ELSE @,
                        !.Properties = [j \in 1..Len(@) |->
                                          [@[j] EXCEPT !.IsBaseType = TRUE]]]} |->
        baseLoop(allOf,
                 [st EXCEPT !.gs.AllOf[i] = bgs,
                            !.known = @ \cup {bgs.Properties[j].Name :
                                                j \in 1..Len(bgs.Properties)},
                            !.h = base.h],
                 i + 1, gsName, perm, vis)])])])])

\* the branches as they are, no field dropped
dedupeNothing(branches, known, i, seen) == branches

\* the properties of branch ss from the j-th on that are kept, with the
\* names seen: a property is kept when no base type declares it or its
\* branch is a base type, and no earlier kept property has its name
RECURSIVE walk(_, _, _, _, _)
walk(ss, known, j, sn, acc) ==
    IF j > Len(ss.Properties) THEN [props |-> acc, seen |-> sn]
    ELSE IF (ss.Properties[j].Name \notin known \/ ss.IsBaseType)
            /\ ss.Properties[j].Name \notin sn
    THEN walk(ss, known, j + 1, sn \cup {ss.Properties[j].Name},
              Append(acc, ss.Properties[j]))
    ELSE walk(ss, known, j + 1, sn, acc)

\* dedupe the fields, over the branches in order
RECURSIVE dedupe(_, _, _, _)
dedupe(branches, known, i, seen) ==
    IF i > Len(branches) THEN branches
    ELSE
      With([w \in {walk(branches[i], known, 1, seen, <<>>)} |->
        dedupe([branches EXCEPT ![i].Properties = w.props], known, i + 1, w.seen)])

\* the children of a base type, stored into Discriminates in order
RECURSIVE putChildren(_, _)
putChildren(m, children) ==
    IF children = <<>> THEN m
    ELSE putChildren(MapPut(m, Head(children).FieldValue, Head(children).KclType),
                     Tail(children))

\* share: the places of the heap that share the storage of schema; vis: the
\* definitions being generated, a second entry being unbounded recursion
makeGenDefinitionHierarchy(name, schema, h0, share, perm, vis) ==
    IF name \in vis THEN D(None, h0, "overflow")
    ELSE
      With([di \in {discriminatorInfo(h0.doc, perm)}, arg \in {Len(h0.cells) + 1} |->
      \* the parameter schema and pg.Schema, two copies
      With([h1 \in {[h0 EXCEPT !.cells = @ \o <<schema, schema>>,
                               !.es = Append(@, <<>>)]} |->
      With([made \in {makeGenSchema(
                        [di |-> di, perm |-> perm],
                        [Ctx0 EXCEPT !.id = arg + 1, !.es = Len(h1.es), !.Name = name,
                                     !.Named = TRUE, !.ModelName = name,
                                     !.orig = {CellPath(arg), CellPath(arg + 1)}
                                              \cup share],
                        h1)},
            isBase \in {name \in DOMAIN di.Discriminators},
            isSub \in {name \in DOMAIN di.Discriminated} |->
      IF made.err # "" THEN D(None, made.h, made.err)
      ELSE
      With([g1 \in {IF isBase
                    THEN [made.sg.GenSchema EXCEPT
                            !.IsBaseType = TRUE, !.IsExported = TRUE,
                            !.DiscriminatorField = di.Discriminators[name].FieldName,
                            !.Discriminates =
                                putChildren(
                                  MapPut(<<>>, name, di.Discriminators[name].KclType),
                                  di.Discriminators[name].Children),
                            !.DiscriminatorValue = name]
                    ELSE made.sg.GenSchema} |->
      IF ~isSub
      THEN D(Some(GenDefinition(g1, gatherExtraSchemas(ESOf(made.sg, made.h)))),
             made.h, "")
      ELSE
      With([g2 \in {[g1 EXCEPT
                       !.DiscriminatorField = di.Discriminated[name].FieldName,
                       !.DiscriminatorValue = di.Discriminated[name].FieldValue,
                       !.IsSubType = TRUE]} |->
      With([bl \in {baseLoop(made.h.cells[arg].allOf,
                             [gs |-> g2, known |-> {}, h |-> made.h, err |-> ""],
                             1, g2.Name, perm, vis \cup {name})} |->
      IF bl.err # "" THEN D(None, bl.h, bl.err)
      ELSE D(Some(GenDefinition([bl.gs EXCEPT !.AllOf = dedupe(@, bl.known, 1, {})],
                                gatherExtraSchemas(ESOf(made.sg, bl.h)))),
             bl.h, "")])])])])])])

\* makeGenDefinition for the model name of a.Models: the model shares its
\* storage with the definition of the document it was gathered from
makeGenDefinition(name, h, perm) ==
    makeGenDefinitionHierarchy(name, h.models[name], h,
                               {ModelPath(name)}
                               \cup (IF name \in h.detached THEN {} ELSE {DocPath(name)}),
                               perm, {})


\* -------------------------------------------------------- preprocessing

\* the loop over the keys of a property, that ends at the x-order key: the
\* type key is seen when no x-order key stands before it
isObject(prop) ==
    /\ prop.type = <<"object">>
    /\ ~(IsSome(prop.ext.xorder) /\ prop.ext.xorderFirst)

\* the x-order i written on a property: over the x-order it has, or else
\* as its last key
setXOrder(prop, i) ==
    [prop EXCEPT !.ext.xorder = Some(i),
                 !.ext.xorderFirst = IsSome(prop.ext.xorder) /\ @]

\* AddXOrderOnProperty: every property gets its position as x-order, in
\* place of the x-order it has or else as its last key; the properties of a
\* property seen to be of type object are numbered in turn
RECURSIVE AddXOrderOnProperty(_)
AddXOrderOnProperty(element) ==
    [element EXCEPT
       !.props = [i \in 1..Len(@) |->
                    [k |-> @[i].k,
                     v |-> IF isObject(@[i].v)
                           THEN AddXOrderOnProperty(setXOrder(@[i].v, i - 1))
                           ELSE setXOrder(@[i].v, i - 1)]]]

\* analyzeSpec: with KeepOrder the definitions are loaded with x-order
WithXOrder(defs) == [n \in DOMAIN defs |-> AddXOrderOnProperty(defs[n])]

\* ------------------------------------------------------------------- CRDs

\* apiextensions.CustomResourceDefinition, as converted from the decoded
\* object: Validation and the Schema of a version are nil (None) or a
\* CustomResourceValidation, whose OpenAPIV3Schema is nil or a
\* JSONSchemaProps; apiType is the type of the decoded object.
HasSchema(validation) == validation # None /\ Get(validation).OpenAPIV3Schema # None

CRDContainsValidation(crd) ==
    \/ HasSchema(crd.Validation)
    \/ \E i \in 1..Len(crd.Versions) : HasSchema(crd.Versions[i].Schema)

ErrNoSchema == "no openapi schema found in the crd file"

\* crdObj2CrdInternal, after the conversion of the decoded object
crdObj2CrdInternal(crd) ==
    With([c \in {IF /\ crd.apiType = "v1beta1"
                    /\ crd.Validation = None
                    /\ Len(crd.Versions) >= 1
                    /\ crd.Versions[1].Schema # None
                 THEN [crd EXCEPT !.Validation = crd.Versions[1].Schema]
                 ELSE crd} |->
       IF CRDContainsValidation(c) THEN [crd |-> Some(c), err |-> ""]
       ELSE [crd |-> None, err |-> ErrNoSchema]])

\* validation.ConvertJSONSchemaProps: the type and the properties
RECURSIVE ConvertJSONSchemaProps(_)
ConvertJSONSchemaProps(js) ==
    [EmptySchema EXCEPT
        !.type = <<js.Type>>,
        !.props = [i \in 1..Len(js.Properties) |->
                     [k |-> js.Properties[i].k,
                      v |-> ConvertJSONSchemaProps(js.Properties[i].v)]]]

\* spec.Schema.SetProperty
SetProperty(schema, name, v) ==
    IF name \in PropNames(schema)
    THEN [schema EXCEPT !.props[PropOf(schema, name)].v = v]
    ELSE [schema EXCEPT !.props = Append(@, [k |-> name, v |-> v])]

objectMetaSchemaRef == <<"k8s.json#/definitions/k8s.apimachinery.pkg.apis.meta.v1.ObjectMeta">>

setKubeNative(schema) ==
    SetProperty(SetProperty(SetProperty(schema, "apiVersion", Typed("string")),
                            "kind", Typed("string")),
                "metadata", RefProperty(objectMetaSchemaRef))

\* fmt.Sprintf("%s.%s.%s", group, version, kind)
CrdName(group, version, kind) == group \o <<".">> \o version \o <<".">> \o kind

\* the loop of buildSwagger over crd.Spec.Versions, from version i on
RECURSIVE versionsLoop(_, _, _)
versionsLoop(crd, i, schemas) ==
    IF i > Len(crd.Versions) THEN schemas
    ELSE IF HasSchema(crd.Versions[i].Schema)
         THEN versionsLoop(crd, i + 1,
                 MapPut(schemas, CrdName(crd.Group, crd.Versions[i].Name, crd.Kind),
                        setKubeNative(ConvertJSONSchemaProps(
                           Get(Get(crd.Versions[i].Schema).OpenAPIV3Schema)))))
         ELSE versionsLoop(crd, i + 1, schemas)

\* buildSwagger: the Definitions of the swagger document
buildSwagger(crd) ==
    IF HasSchema(crd.Validation)
    THEN MapPut(<<>>, CrdName(crd.Group, crd.Version, crd.Kind),
                setKubeNative(ConvertJSONSchemaProps(Get(Get(crd.Validation).OpenAPIV3Schema))))
    ELSE versionsLoop(crd, 1, <<>>)

\* ----------------------------------------------------------------- imports

\* A package path, an alias and a KclType are strings, written letter by
\* letter: <<"a", ".", "b">> is "a.b".
ToTitle(s) == [i \in 1..Len(s) |-> Title(s[i])]

\* strings.Index(s, "."), from 1, 0 when there is none
IndexDot(s) ==
    IF \E i \in 1..Len(s) : s[i] = "."
    THEN CHOOSE i \in 1..Len(s) : s[i] = "." /\ \A j \in 1..(i - 1) : s[j] # "."
    ELSE 0

\* strings.Split(s, ".")
RECURSIVE Split(_)
Split(s) ==
    IF IndexDot(s) = 0 THEN <<s>>
    ELSE <<SubSeq(s, 1, IndexDot(s) - 1)>> \o Split(SubSeq(s, IndexDot(s) + 1, Len(s)))

AsNames(imp) == {imp[k].AsName : k \in DOMAIN imp}

\* the loop of getImportAsName over the parts of pkg, from the last one
RECURSIVE asNameLoop(_, _, _, _)
asNameLoop(imp, parts, i, asName) ==
    IF i < 1
    THEN [conflict |-> TRUE, asName |-> asName]
    ELSE With([next \in {parts[i] \o ToTitle(asName)} |->
            IF next \in AsNames(imp)
            THEN asNameLoop(imp, parts, i - 1, next)
            ELSE [conflict |-> FALSE, asName |-> next]])

getImportAsName(imp, pkg) ==
    With([l \in {asNameLoop(imp, Split(pkg), Len(Split(pkg)), <<>>)} |->
       IF l.conflict THEN <<"kclMangled">> \o ToTitle(l.asName) ELSE l.asName])

\* The fields of a GenSchema that collectImports reads and writes.
GenImport(pkg, kclType) ==
    [Pkg |-> pkg, KclType |-> kclType, Items |-> None, AdditionalItems |-> None,
     Object |-> None, Properties |-> <<>>, AdditionalProperties |-> None, AllOf |-> <<>>]

\* the outcome of collectImports: the schema and the import map, as left
CI(sch, imp) == [sch |-> sch, imp |-> imp]

rootPkgName(pkg) == IF IndexDot(pkg) = 0 THEN pkg ELSE SubSeq(pkg, 1, IndexDot(pkg) - 1)

\* the end of collectImports, once the children are visited: the import of
\* the package of sch itself
importOwnPkg(sch, toPkg, imp) ==
    IF sch.Pkg = toPkg \/ sch.Pkg = <<>>
    THEN CI(sch, imp)
    ELSE With([innerPkg \in {IF rootPkgName(sch.Pkg) = rootPkgName(toPkg)
                             THEN SubSeq(sch.Pkg, IndexDot(sch.Pkg) + 1, Len(sch.Pkg))
                             ELSE sch.Pkg} |->
          With([imp2 \in {IF sch.Pkg \in DOMAIN imp
                          THEN imp
                          ELSE With([asName \in {getImportAsName(imp, innerPkg)} |->
                                  MapPut(imp, sch.Pkg,
                                         [ImportPath |-> innerPkg, AsName |-> asName,
                                          MustAsName |->
                                             asName # SubSeq(sch.Pkg, LastDot(sch.Pkg) + 1,
                                                             Len(sch.Pkg))])])} |->
             CI([sch EXCEPT !.KclType = imp2[sch.Pkg].AsName \o <<".">> \o @], imp2)])])

RECURSIVE collectImports(_, _, _)
\* collectImports on a child that may be nil
collectOpt(child, toPkg, imp) ==
    IF child = None THEN CI(child, imp)
    ELSE With([r \in {collectImports(Get(child), toPkg, imp)} |-> CI(Some(r.sch), r.imp)])

\* collectImports on the schemas of a list, from index idx on
RECURSIVE collectList(_, _, _, _)
collectList(list, idx, toPkg, imp) ==
    IF idx > Len(list) THEN CI(list, imp)
    ELSE With([r \in {collectImports(list[idx], toPkg, imp)} |->
            collectList([list EXCEPT ![idx] = r.sch], idx + 1, toPkg, r.imp)])

collectImports(sch, toPkg, imp) ==
    With([items \in {collectOpt(sch.Items, toPkg, imp)} |->
    With([addItems \in {collectOpt(sch.AdditionalItems, toPkg, items.imp)} |->
    With([object \in {collectOpt(sch.Object, toPkg, addItems.imp)} |->
    With([props \in {collectList(sch.Properties, 1, toPkg, object.imp)} |->
    With([addProps \in {collectOpt(sch.AdditionalProperties, toPkg, props.imp)} |->
    With([allOf \in {collectList(sch.AllOf, 1, toPkg, addProps.imp)} |->
       importOwnPkg([sch EXCEPT !.Items = items.sch,
                                !.AdditionalItems = addItems.sch,
                                !.Object = object.sch,
                                !.Properties = props.sch,
                                !.AdditionalProperties = addProps.sch,
                                !.AllOf = allOf.sch,
                                !.KclType =
                                   IF addProps.sch # None
                                   THEN <<"{str:">> \o Get(addProps.sch).KclType \o <<"}">>
                                   ELSE IF items.sch # None
                                        THEN <<"[">> \o Get(items.sch).KclType \o <<"]">>
                                        ELSE @],
                    toPkg, allOf.imp)])])])])])])

\* collectSortedImports: the import statements, by ascending package path
collectSortedImports(model) ==
    With([importMap \in {collectImports(model, model.Pkg, <<>>).imp} |->
       With([sortedPkgPaths \in {SortNames(DOMAIN importMap)} |->
          [i \in 1..Len(sortedPkgPaths) |-> importMap[sortedPkgPaths[i]]]])])

\* ---------------------------------------------------- shared validations

\* A value of a decoded document, with its dynamic type: t is "nil", one of
\* the scalar types, or the type of a list or of a map.
Nil == [t |-> "nil", v |-> <<>>]
ScalarTypes == {"bool", "string", "int", "float64", "float32"}

\* append to a slice that may be nil
Append1(slice, x) == Some(IF slice = None THEN <<x>> ELSE Append(Get(slice), x))

\* the loop of pruneEnums over s.Enum, from entry i on
RECURSIVE pruneLoop(_, _, _, _, _)
pruneLoop(enum, i, newEnums, containsNil, containsComplex) ==
    IF i > Len(enum)
    THEN [newEnums |-> newEnums, containsNil |-> containsNil,
          containsComplex |-> containsComplex]
    ELSE IF enum[i] = Nil
         THEN pruneLoop(enum, i + 1, newEnums, TRUE, containsComplex)
         ELSE IF enum[i].t \in ScalarTypes
              THEN pruneLoop(enum, i + 1, Append1(newEnums, enum[i]), containsNil,
                             containsComplex)
              ELSE pruneLoop(enum, i + 1, newEnums, containsNil, TRUE)

\* an enum list that is left as it is
pruneNothing(enum) == [Enum |-> enum, fatal |-> FALSE]

\* sharedValidations.pruneEnums on s.Enum: the Enum it leaves, and whether
\* it ended the process (log.Fatalf)
pruneEnums(enum) ==
    IF enum = None
    THEN [Enum |-> enum, fatal |-> FALSE]
    ELSE With([l \in {pruneLoop(Get(enum), 1, None, FALSE, FALSE)} |->
            [Enum |-> IF l.containsNil THEN l.newEnums ELSE enum,
             fatal |-> l.containsComplex]])

\* sharedValidationsFromSchema: the sharedValidations of v with those of its
\* allOf branches, None when the process was ended on the way
RECURSIVE sharedValidationsFromSchema(_)
sharedValidationsFromSchema(v) ==
    With([branches \in {[i \in 1..Len(v.allOf) |-> sharedValidationsFromSchema(v.allOf[i])]} |->
       IF \E i \in 1..Len(branches) : branches[i] = None
       THEN None
       ELSE With([pruned \in {pruneEnums(v.enum)} |->
               IF pruned.fatal
               THEN None
               ELSE Some([Enum |-> pruned.Enum,
                          AllOf |-> [i \in 1..Len(branches) |-> Get(branches[i])]])])])

\* --------------------------------------------------------------- inputs

String == Typed("string")
Integer == Typed("integer")
Prop(k, v) == [k |-> k, v |-> v]
Obj(ps) == [Typed("object") EXCEPT !.props = ps]
ArrayOf(s) == [Typed("array") EXCEPT !.items = ItemsOne(s)]
TupleOf(ss) == [Typed("array") EXCEPT !.items = ItemsMany(ss)]
MapOf(s) == [Typed("object") EXCEPT !.addProps = OrBoolSchema(s)]
AllOf(ss) == [EmptySchema EXCEPT !.allOf = ss]
Foo == <<"Foo">>
Bar == <<"Bar">>
Qux == <<"Qux">>

\* The property names of the generated objects, and the schema of each: b
\* is an integer or an inline object.
PropKeys == <<"a", "b", "c", "d">>
PropValue(k, bv) ==
    CASE k = "a" -> String [] k = "b" -> bv [] k = "c" -> Integer [] OTHER -> Typed("boolean")

\* the sequences without repetition of the first n property names
Orders(n) ==
    {o \in [1..n -> 1..n] : \A i, j \in 1..n : i # j => o[i] # o[j]}

\* the objects that declare the first n property names, n up to MaxProps,
\* in every order
ObjBodies(bv) ==
    UNION {{Obj([i \in 1..n |-> Prop(PropKeys[o[i]], PropValue(PropKeys[o[i]], bv))]) :
              o \in Orders(n)} : n \in 1..MaxProps}

Base == [Obj(<<Prop("kind", String), Prop("name", String)>>) EXCEPT
           !.disc = "kind", !.required = {"kind"}]

\* the definitions Bar can be: a primitive, arrays, maps, objects, a base
\* type, a tuple, and definitions that refer to themselves
Targets ==
    {String, ArrayOf(String), MapOf(String), Obj(<<Prop("a", String)>>), Base,
     [Obj(<<Prop("a", String)>>) EXCEPT !.addProps = OrBoolSchema(String)],
     ArrayOf(RefProperty(Bar)), MapOf(RefProperty(Bar)),
     Obj(<<Prop("a", RefProperty(Bar))>>),
     [ArrayOf(String) EXCEPT !.addItems = OrBoolSchema(String)],
     TupleOf(<<String, Integer>>),
     MapOf(Obj(<<Prop("a", String)>>)), ArrayOf(Obj(<<Prop("a", String)>>))}

IntOrString(s) == [s EXCEPT !.ext.intOrStr = TRUE]

\* the definitions Foo can be when it uses Bar
Users ==
    {RefProperty(Bar), Obj(<<Prop("a", RefProperty(Bar))>>),
     AllOf(<<RefProperty(Bar), Obj(<<Prop("pack", String), Prop("name", String)>>)>>),
     [AllOf(<<RefProperty(Bar), Obj(<<Prop("pack", String)>>)>>) EXCEPT !.ext.xschema = "pup"],
     AllOf(<<RefProperty(Bar), RefProperty(Bar)>>),
     AllOf(<<Obj(<<Prop("name", String)>>), RefProperty(Bar)>>),
     ArrayOf(RefProperty(Bar)),
     [Obj(<<Prop("a", String)>>) EXCEPT !.addProps = OrBoolSchema(RefProperty(Bar))],
     Obj(<<Prop("a", IntOrString(RefProperty(Bar)))>>)}

\* the schemas of an inline property: tuples, maps and arrays of inline
\* objects, an object with additional properties, a single items schema
\* with additionalItems, and schemas tagged x-kubernetes-int-or-string
Inline ==
    {TupleOf(<<String, Integer>>), MapOf(Obj(<<Prop("a", String)>>)), ArrayOf(Obj(<<Prop("a", String)>>)),
     [Obj(<<Prop("a", String)>>) EXCEPT !.addProps = OrBoolSchema(Integer)],
     [ArrayOf(String) EXCEPT !.addItems = OrBoolSchema(String)],
     IntOrString(String), IntOrString(Integer), IntOrString(EmptySchema),
     IntOrString(Typed("object")), IntOrString([EmptySchema EXCEPT !.type = <<"integer", "string">>]),
     IntOrString([Integer EXCEPT !.format = "int32"]),
     [EmptySchema EXCEPT !.type = <<"integer", "string">>]}

Def(n, s) == [x \in {n} |-> s]

\* The documents of the runs.
Docs ==
    {Def(Foo, f) : f \in ObjBodies(Integer) \cup ObjBodies(Obj(<<Prop("a", String)>>))}
    \cup {Def(Foo, Obj(<<Prop("a", v)>>)) : v \in Inline}
    \cup {Def(Bar, t) : t \in Targets}
    \cup {MapPut(Def(Bar, t), Foo, u) : t \in Targets, u \in Users}
    \cup {MapPut(MapPut(Def(Bar, t), Foo, u), Qux, RefProperty(Foo)) :
            t \in Targets, u \in Users}

\* the orders a run can range over a map in: the rotations of the ascending
\* and of the descending order
Rotate(o, r) == [i \in 1..Len(o) |-> o[((i + r - 1) % Len(o)) + 1]]
RangeOrders ==
    {Rotate([i \in 1..MaxProps |-> i], r) : r \in 0..(MaxProps - 1)}
    \cup {Rotate([i \in 1..MaxProps |-> MaxProps + 1 - i], r) : r \in 0..(MaxProps - 1)}

\* the values of an enum list: null, scalars, a list and a map
EnumValues ==
    {Nil, [t |-> "string", v |-> "a"], [t |-> "string", v |-> "b"],
     [t |-> "float64", v |-> 1], [t |-> "bool", v |-> TRUE],
     [t |-> "[]interface{}", v |-> <<>>], [t |-> "map[string]interface{}", v |-> <<>>]}

EnumLists(n) == UNION {[1..k -> EnumValues] : k \in 0..n}

\* schemas with an enum, of their own or in an allOf branch
EnumSchemas ==
    {[String EXCEPT !.enum = Some(e)] : e \in EnumLists(MaxEnum)}
    \cup {[AllOf(<<[String EXCEPT !.enum = Some(e)]>>) EXCEPT !.enum = f] :
             e \in EnumLists(MaxEnum - 1), f \in {None} \cup {Some(g) : g \in EnumLists(1)}}
    \cup {String}

\* the packages of the schemas a model refers to: of another root, of the
\* root of the model's own package c.d, that package itself, and none
ImportPkgs ==
    {<<"a", ".", "b">>, <<"b">>, <<"c", ".", "b">>, <<"c", ".", "a", ".", "b">>,
     <<"d", ".", "a", ".", "b">>, <<"c", ".", "d">>, <<>>}

Imported(pkg) == GenImport(pkg, <<"Bar">>)

\* models of package c.d: with properties of these packages, and with a
\* list or a map of such a schema as a property
ImportModels ==
    {[GenImport(<<"c", ".", "d">>, <<"Foo">>) EXCEPT !.Properties = ps] :
        ps \in UNION {[1..k -> {Imported(pkg) : pkg \in ImportPkgs}] : k \in 0..MaxImports}}
    \cup {[GenImport(<<"c", ".", "d">>, <<"Foo">>) EXCEPT
             !.Properties = <<[GenImport(<<>>, <<>>) EXCEPT !.Items = Some(Imported(p))],
                              [GenImport(<<>>, <<>>) EXCEPT
                                  !.AdditionalProperties = Some(Imported(q))]>>] :
             p \in ImportPkgs, q \in ImportPkgs}

JSONProps(type, props) == [Type |-> type, Properties |-> props]

\* the validations of a CRD or of a version: none, one without a schema,
\* and schemas of an object with and without a property called kind
Validations ==
    {None, Some([OpenAPIV3Schema |-> None]),
     Some([OpenAPIV3Schema |->
              Some(JSONProps("object", <<Prop("a", JSONProps("string", <<>>))>>))]),
     Some([OpenAPIV3Schema |->
              Some(JSONProps("object", <<Prop("kind", JSONProps("integer", <<>>))>>))])}

VersionNames == <<<<"v1">>, <<"v2">>, <<"v3">>>>

\* the CRDs: of group g and kind K, with up to MaxVersions versions v1,
\* v2, ... in this order, spec.version naming the first one; the schemas
\* are per version or at the top, not both
Crds ==
    {[apiType |-> t, Group |-> <<"g">>, Kind |-> <<"K">>, Version |-> <<"v1">>,
      Validation |-> top,
      Versions |-> [i \in 1..n |-> [Name |-> VersionNames[i], Schema |-> per[i]]]] :
        t \in {"v1beta1", "v1", "internal"}, top \in Validations,
        n \in 0..MaxVersions, per \in [1..MaxVersions -> Validations]}

XOrdered(s, i, first) == [s EXCEPT !.ext.xorder = Some(i), !.ext.xorderFirst = first]

\* the properties of the documents that have x-order keys: strings and
\* objects, nested or not, without x-order, and with one after or before
\* their type key
OrderedValues ==
    {String, XOrdered(String, 2, FALSE), XOrdered(String, 0, TRUE),
     Obj(<<Prop("a", String)>>),
     XOrdered(Obj(<<Prop("a", String), Prop("b", Integer)>>), 1, FALSE),
     XOrdered(Obj(<<Prop("a", String), Prop("b", Integer)>>), 1, TRUE),
     Obj(<<Prop("a", Obj(<<Prop("b", XOrdered(String, 2, FALSE))>>))>>),
     ArrayOf(Obj(<<Prop("a", String)>>))}

OrderedDocs ==
    {Def(Foo, Obj(<<Prop("a", v)>>)) : v \in OrderedValues}
    \cup {Def(Foo, Obj(<<Prop("a", v), Prop("b", w)>>)) : v \in OrderedValues, w \in OrderedValues}

\* the schemas ResolveSchema classifies: with and without a $ref, a format
\* (mapped for some types, for every type, for none), the int-or-string flag
\* and a type list of none, one or two types
ClassTypes ==
    {<<>>, <<"string">>, <<"integer">>, <<"object">>, <<"array">>, <<"null">>,
     <<"integer", "string">>, <<"string", "integer">>, <<"string", "boolean">>}

ClassSchemas ==
    {[EmptySchema EXCEPT !.ref = r, !.type = t, !.format = f, !.ext.intOrStr = x] :
        r \in {<<>>, Bar}, t \in ClassTypes, f \in {"", "int32", "int-or-string", "date"},
        x \in BOOLEAN}

\* Foo is such a schema or has one as property a, Bar is what it refers to
ClassDocs ==
    {MapPut(Def(Foo, u), Bar, t) :
        u \in ClassSchemas \cup {Obj(<<Prop("a", s)>>) : s \in ClassSchemas},
        t \in {String, Obj(<<Prop("a", String)>>), ArrayOf(String), MapOf(String)}}

\* the entries of an allOf: a $ref, a primitive, an inline object, and an
\* entry that declares no type, property, $ref or allOf (a description, say)
LiftEntries == {RefProperty(Bar), String, Obj(<<Prop("a", String)>>), EmptySchema}

\* Foo is an allOf of two such entries, Bar an object, a primitive or an
\* array
LiftDocs ==
    {MapPut(Def(Foo, AllOf(<<x, y>>)), Bar, t) :
        x \in LiftEntries, y \in LiftEntries,
        t \in {Obj(<<Prop("b", Integer)>>), Integer, ArrayOf(String)}}

\* the branches of a composition: a $ref, an inline object, a primitive, an
\* array of primitives and a nested composition
Branches ==
    {RefProperty(Bar), Obj(<<Prop("a", String)>>), String, ArrayOf(Integer),
     AllOf(<<RefProperty(Bar), Obj(<<Prop("c", String)>>)>>)}

\* Foo is a composition of two branches, alone or on an array of inline
\* objects or of strings
ComposeDocs ==
    {MapPut(Def(Foo, [AllOf(<<x, y>>) EXCEPT !.type = t.type, !.items = t.items]),
            Bar, Obj(<<Prop("b", Integer)>>)) :
        x \in Branches, y \in Branches,
        t \in {EmptySchema, ArrayOf(Obj(<<Prop("d", String)>>)), ArrayOf(String)}}

\* the GenSchemas of the contexts that are merged: their flags, and the
\* additionalProperties of the child
MergeFlags ==
    {[GS0 EXCEPT !.Required = r, !.HasBaseType = b, !.IsBaseType = i,
                 !.HasValidations = v] :
        r \in BOOLEAN, b \in BOOLEAN, i \in BOOLEAN, v \in BOOLEAN}

MergeChildren ==
    {[g EXCEPT !.AdditionalProperties = ap] :
        g \in MergeFlags, ap \in {None, Some([GS0 EXCEPT !.Required = TRUE])}}

\* the ExtraSchemas maps of the contexts
MergeExtras == {<<>>, Def(<<"Foo", "A">>, [GS0 EXCEPT !.Name = <<"Foo", "A">>])}

\* Foo has two properties that are inline objects, of different names and
\* different schemas; the document declares FooA beside it, or does not
HoistKeys == {ks \in {"a", "A", "b"} \X {"a", "A", "b"} : ks[1] # ks[2]}

HoistDocs ==
    {MapPut(d, Foo, Obj(<<Prop(ks[1], Obj(<<Prop("c", String)>>)),
                          Prop(ks[2], Obj(<<Prop("d", Integer)>>))>>)) :
        ks \in HoistKeys,
        d \in {<<>>, Def(<<"Foo", "A">>, Obj(<<Prop("b", String)>>))}}

\* Foo is an allOf of two entries, Bar a base type with a discriminator
SubtypeDocs ==
    {MapPut(Def(Foo, AllOf(<<x, y>>)), Bar, Base) :
        x \in LiftEntries \cup {Obj(<<Prop("pack", String)>>)},
        y \in LiftEntries \cup {Obj(<<Prop("pack", String)>>)}}

\* the default and example values: strings, and the lists and the maps of
\* two items at most, of strings and of lists and maps of strings
ListsOf(S) ==
    {List(<<>>)} \cup {List(<<x>>) : x \in S} \cup {List(<<x, y>>) : x \in S, y \in S}

MapsOf(S) ==
    {MapSlice(<<>>)}
      \cup {MapSlice(<<MapItem(k, x)>>) : k \in {"a", "b"}, x \in S}
      \cup {MapSlice(<<MapItem(ks[1], x), MapItem(ks[2], y)>>) :
               ks \in {<<"a", "b">>, <<"b", "a">>}, x \in S, y \in S}

Strings == {Str("x"), Str("y")}
FlatValues == Strings \cup ListsOf(Strings) \cup MapsOf(Strings)
DefaultValues == FlatValues \cup ListsOf(FlatValues) \cup MapsOf(FlatValues)

\* an object with a default: a string, a list, a map of strings, a map of
\* maps
Defaulted ==
    {WithDefault(Obj(<<Prop("c", String)>>), d) :
        d \in {Str("x"), List(<<Str("x")>>),
               MapSlice(<<MapItem("c", Str("x"))>>),
               MapSlice(<<MapItem("b", Str("x")), MapItem("a", Str("y"))>>),
               MapSlice(<<MapItem("a", MapSlice(<<MapItem("c", Str("x"))>>)),
                          MapItem("b", MapSlice(<<>>))>>)}}

\* Foo has the object as its schema, as a property, as a property of a
\* property, as its items, as its additionalProperties, as the items of a
\* property, or as a branch of its allOf
DefaultDocs ==
    {MapPut(Def(Foo, s), Bar, Obj(<<Prop("b", Integer)>>)) :
        s \in UNION {{n, Obj(<<Prop("a", n)>>),
                      Obj(<<Prop("a", Obj(<<Prop("b", n)>>))>>),
                      ArrayOf(n), MapOf(n), Obj(<<Prop("a", ArrayOf(n))>>),
                      AllOf(<<RefProperty(Bar), n>>)} : n \in Defaulted}}

\* model names: words, '-' and '.', in any order
ModelNames == UNION {[1..k -> {"a", "schema", "-", "."}] : k \in 1..MaxName}

\* ------------------------------------------------------- state machine

VARIABLES
    loaded,     \* the definitions of the document, as loaded by analyzeSpec
    keepOrder,  \* GenOpts.KeepOrder
    iter,       \* the order this run ranges over maps in
    doc,        \* specDoc.Spec().Definitions, live
    models,     \* a.Models, gathered from the document
    detached,   \* the models whose definition was stored anew
    out,        \* genModels: model name -> GenDefinition
    status,     \* "running", "finished", "failed" (an error was returned),
                \* "crashed" (unbounded recursion, or a panic)
    failure,    \* the model the run stopped at, and the error
    probe,      \* the call of ResolveSchema from outside, and its result
    info,       \* the result of discriminatorInfo on the document, once called
    partial     \* the models built although a step on one of their contexts failed

vars == <<loaded, keepOrder, iter, doc, models, detached, out, status, failure, probe, info,
         partial>>

NoFailure == [model |-> <<>>, err |-> ""]
NoProbe == [model |-> <<>>, prop |-> "", rt |-> RT0, err |-> ""]

\* newGenerator: the document is loaded (with x-order when KeepOrder) and
\* the models are gathered
Init ==
    /\ keepOrder \in BOOLEAN
    /\ iter \in RangeOrders
    /\ \E input \in Docs : loaded = IF keepOrder THEN WithXOrder(input) ELSE input
    /\ doc = loaded
    /\ models = loaded
    /\ detached = {}
    /\ out = <<>>
    /\ status = "running"
    /\ failure = NoFailure
    /\ probe = NoProbe
    /\ info = None
    /\ partial = {}

Crashes == {"overflow", "panic", "fatal"}

\* one round of the loop of makeCodegen over a.Models: makeGenDefinition for
\* a model not built yet; an error ends the run
Generate(mn) ==
    /\ status = "running"
    /\ mn \in DOMAIN models \ DOMAIN out
    /\ \E r \in {makeGenDefinition(mn, [doc |-> doc, models |-> models,
                                        detached |-> detached, cells |-> <<>>,
                                        es |-> <<>>, failed |-> FALSE, KeepOrder |-> keepOrder], iter)} :
          /\ doc' = r.h.doc
          /\ models' = r.h.models
          /\ detached' = r.h.detached
          /\ IF r.err = ""
             THEN /\ out' = MapPut(out, mn, Get(r.def))
                  /\ partial' = IF r.h.failed THEN partial \cup {mn} ELSE partial
                  /\ UNCHANGED <<status, failure>>
             ELSE /\ status' = IF r.err \in Crashes THEN "crashed" ELSE "failed"
                  /\ failure' = [model |-> mn, err |-> r.err]
                  /\ UNCHANGED <<out, partial>>
    /\ UNCHANGED <<loaded, keepOrder, iter, probe, info>>

\* the end of makeCodegen: every model is built
Finish ==
    /\ status = "running"
    /\ DOMAIN out = DOMAIN models
    /\ status' = "finished"
    /\ UNCHANGED <<loaded, keepOrder, iter, doc, models, detached, out, failure, probe, info,
                   partial>>

Next == (\E mn \in DOMAIN models : Generate(mn)) \/ Finish

Spec == Init /\ [][Next]_vars

\* typeResolver.ResolveSchema, called on a definition of the document (a
\* named schema) or on one of its properties (an anonymous one)
ResolveDefinition(mn) ==
    /\ probe = NoProbe
    /\ mn \in DOMAIN doc
    /\ \E r \in {ResolveSchema(doc, mn, doc[mn], FALSE, TRUE, {})} :
          probe' = [model |-> mn, prop |-> "", rt |-> r.rt, err |-> r.err]
    /\ UNCHANGED <<loaded, keepOrder, iter, doc, models, detached, out, status, failure, info,
                   partial>>

ResolveProperty(mn, k) ==
    /\ probe = NoProbe
    /\ mn \in DOMAIN doc
    /\ k \in PropNames(doc[mn])
    /\ \E r \in {ResolveSchema(doc, mn, doc[mn].props[PropOf(doc[mn], k)].v, TRUE,
                                 k \in doc[mn].required, {})} :
          probe' = [model |-> mn, prop |-> k, rt |-> r.rt, err |-> r.err]
    /\ UNCHANGED <<loaded, keepOrder, iter, doc, models, detached, out, status, failure, info,
                   partial>>

\* discriminatorInfo(analysis.New(specDoc.Spec()))
Discriminate ==
    /\ info = None
    /\ info' = Some(discriminatorInfo(doc, iter))
    /\ UNCHANGED <<loaded, keepOrder, iter, doc, models, detached, out, status, failure, probe,
                   partial>>

NextResolve ==
    \/ \E mn \in DOMAIN doc : ResolveDefinition(mn)
    \/ \E mn \in DOMAIN doc : \E k \in PropNames(doc[mn]) : ResolveProperty(mn, k)
    \/ Discriminate

SpecResolve == Init /\ [][NextResolve]_vars

\* The validations of one schema, taken from outside a run: the schema is
\* drawn, schemaValidations is called on it once.
InitValidations ==
    /\ keepOrder = FALSE
    /\ iter \in {CHOOSE o \in RangeOrders : TRUE}
    /\ loaded \in {Def(<<"Foo">>, v) : v \in EnumSchemas}
    /\ doc = loaded
    /\ models = loaded
    /\ detached = {}
    /\ out = <<>>
    /\ status = "running"
    /\ failure = NoFailure
    /\ probe = None
    /\ info = None
    /\ partial = {}

\* schemaValidations of the context of definition mn: log.Fatalf ends the
\* process
Validate(mn) ==
    /\ status = "running"
    /\ probe = None
    /\ mn \in DOMAIN doc
    /\ \E sh \in {sharedValidationsFromSchema(doc[mn])} :
          /\ probe' = Some([model |-> mn, sh |-> sh])
          /\ status' = IF sh = None THEN "exited" ELSE status
    /\ UNCHANGED <<loaded, keepOrder, iter, doc, models, detached, out, failure, info,
                   partial>>

NextValidations == \E mn \in DOMAIN doc : Validate(mn)

SpecValidations == InitValidations /\ [][NextValidations]_vars

\* The imports of one planned model, taken from outside a run: the GenSchema
\* is drawn, its imports are collected once.
InitImports ==
    /\ keepOrder = FALSE
    /\ iter \in {CHOOSE o \in RangeOrders : TRUE}
    /\ loaded = <<>>
    /\ doc = loaded
    /\ models = loaded
    /\ detached = {}
    /\ out \in {Def(<<"Foo">>, GenDefinition(gs, <<>>)) : gs \in ImportModels}
    /\ status = "running"
    /\ failure = NoFailure
    /\ probe = None
    /\ info = None
    /\ partial = {}

\* Imports: collectSortedImports(pg.GenSchema), of the definition mn
Import(mn) ==
    /\ probe = None
    /\ mn \in DOMAIN out
    /\ probe' = Some([model |-> mn, Imports |-> collectSortedImports(out[mn].GenSchema)])
    /\ UNCHANGED <<loaded, keepOrder, iter, doc, models, detached, out, status, failure, info,
                   partial>>

NextImports == \E mn \in DOMAIN out : Import(mn)

SpecImports == InitImports /\ [][NextImports]_vars

\* The conversion of a CRD into the document the generator loads.
InitCrd ==
    /\ keepOrder = FALSE
    /\ iter \in {CHOOSE o \in RangeOrders : TRUE}
    /\ loaded \in {crd \in Crds :
                      crd.Validation = None
                      \/ \A i \in 1..Len(crd.Versions) : crd.Versions[i].Schema = None}
    /\ doc = <<>>
    /\ models = <<>>
    /\ detached = {}
    /\ out = <<>>
    /\ status = "running"
    /\ failure = NoFailure
    /\ probe = None
    /\ info = None
    /\ partial = {}

\* generate: the decoded CRD is converted, the swagger document is built
\* of it; an error ends the run
GetSpec ==
    /\ status = "running"
    /\ probe = None
    /\ \E r \in {crdObj2CrdInternal(loaded)} :
          IF r.err = ""
          THEN /\ doc' = buildSwagger(Get(r.crd))
               /\ probe' = Some([crd |-> Get(r.crd)])
               /\ UNCHANGED <<status, failure>>
          ELSE /\ status' = "failed"
               /\ failure' = [model |-> <<>>, err |-> r.err]
               /\ UNCHANGED <<doc, probe>>
    /\ UNCHANGED <<loaded, keepOrder, iter, models, detached, out, info, partial>>

NextCrd == GetSpec

SpecCrd == InitCrd /\ [][NextCrd]_vars

\* The loading of a document with KeepOrder, taken once and once more:
\* probe counts the calls of AddXOrderOnProperty.
InitXOrder ==
    /\ keepOrder = TRUE
    /\ iter \in {CHOOSE o \in RangeOrders : TRUE}
    /\ loaded \in OrderedDocs
    /\ doc = loaded
    /\ models = loaded
    /\ detached = {}
    /\ out = <<>>
    /\ status = "running"
    /\ failure = NoFailure
    /\ probe = 0
    /\ info = None
    /\ partial = {}

AddXOrder ==
    /\ probe < 2
    /\ probe' = probe + 1
    /\ doc' = WithXOrder(doc)
    /\ models' = doc'
    /\ UNCHANGED <<loaded, keepOrder, iter, detached, out, status, failure, info, partial>>

NextXOrder == AddXOrder

SpecXOrder == InitXOrder /\ [][NextXOrder]_vars

\* The run of the generator on the documents with an allOf of two entries.
InitLift ==
    /\ keepOrder \in BOOLEAN
    /\ iter \in RangeOrders
    /\ loaded \in LiftDocs
    /\ doc = loaded
    /\ models = loaded
    /\ detached = {}
    /\ out = <<>>
    /\ status = "running"
    /\ failure = NoFailure
    /\ probe = NoProbe
    /\ info = None
    /\ partial = {}

SpecLift == InitLift /\ [][Next]_vars

\* The run of the generator on the compositions.
InitCompose ==
    /\ keepOrder \in BOOLEAN
    /\ iter \in RangeOrders
    /\ loaded \in ComposeDocs
    /\ doc = loaded
    /\ models = loaded
    /\ detached = {}
    /\ out = <<>>
    /\ status = "running"
    /\ failure = NoFailure
    /\ probe = NoProbe
    /\ info = None
    /\ partial = {}

SpecCompose == InitCompose /\ [][Next]_vars

\* MergeResult of a child context into its parent, each with an
\* ExtraSchemas map of its own: probe.merged is the parent after the call.
InitMerge ==
    /\ probe \in [sg : MergeFlags, other : MergeChildren, liftsRequired : BOOLEAN,
                   extra : MergeExtras, merged : {None}]
    /\ keepOrder = FALSE
    /\ iter = <<>>
    /\ loaded = <<>>
    /\ doc = <<>>
    /\ models = <<>>
    /\ detached = {}
    /\ out = <<>>
    /\ status = "running"
    /\ failure = NoFailure
    /\ info = None
    /\ partial = {}

Merge ==
    /\ probe.merged = None
    /\ \E m \in {MergeResult(
                    [Ctx0 EXCEPT !.id = 1, !.es = 1, !.GenSchema = probe.sg],
                    [doc |-> <<>>, models |-> <<>>, detached |-> {},
                     cells |-> <<EmptySchema, EmptySchema>>,
                     es |-> <<Def(<<"Foo", "B">>, GS0), probe.extra>>, failed |-> FALSE, KeepOrder |-> keepOrder],
                    [Ctx0 EXCEPT !.id = 2, !.es = 2, !.GenSchema = probe.other],
                    probe.liftsRequired)} :
          probe' = [probe EXCEPT
                      !.merged = Some([GenSchema |-> m.sg.GenSchema,
                                       ExtraSchemas |-> ESOf(m.sg, m.h)])]
    /\ UNCHANGED <<loaded, keepOrder, iter, doc, models, detached, out, status,
                   failure, info, partial>>

NextMerge == Merge

SpecMerge == InitMerge /\ [][NextMerge]_vars

\* A child context is derived from a parent, by shallowClone or by
\* makeNewSchema, and writes its GenSchema and an entry of its ExtraSchemas:
\* probe.child is the child when derived (start) and after the writes,
\* probe.parent the parent after them.
InitClone ==
    /\ probe \in [sg : MergeFlags, extra : MergeExtras,
                   name : {<<"Foo", "A">>, <<"Foo", "C">>},
                   how : {""}, start : {None}, child : {None}, parent : {None}]
    /\ keepOrder = FALSE
    /\ iter = <<>>
    /\ loaded = <<>>
    /\ doc = <<>>
    /\ models = <<>>
    /\ detached = {}
    /\ out = <<>>
    /\ status = "running"
    /\ failure = NoFailure
    /\ info = None
    /\ partial = {}

\* the parent context and the heap it lives in
CloneParent ==
    [Ctx0 EXCEPT !.id = 1, !.es = 1, !.Name = Foo, !.ModelName = Foo, !.Named = TRUE,
                 !.GenSchema = probe.sg]
CloneHeap ==
    [doc |-> Def(Foo, EmptySchema), models |-> Def(Foo, EmptySchema), detached |-> {},
     cells |-> <<EmptySchema>>, es |-> <<probe.extra>>, failed |-> FALSE, KeepOrder |-> keepOrder]

\* the child c of CloneParent writes gs into its GenSchema and into its
\* ExtraSchemas, under probe.name
Written(how, c) ==
    \E gs \in {[GS0 EXCEPT !.Name = probe.name, !.IsExported = TRUE]} :
    \E h \in {ESPut(c.pg, c.h, probe.name, gs)} :
       probe' = [probe EXCEPT
                   !.how = how,
                   !.start = Some([GenSchema |-> c.pg.GenSchema,
                                   ExtraSchemas |-> ESOf(c.pg, c.h)]),
                   !.child = Some([GenSchema |-> gs, ExtraSchemas |-> ESOf(c.pg, h)]),
                   !.parent = Some([GenSchema |-> CloneParent.GenSchema,
                                    ExtraSchemas |-> ESOf(CloneParent, h)])]

Clone ==
    /\ probe.how = ""
    /\ Written("shallowClone", shallowClone(CloneParent, CloneHeap, EmptySchema, {}))
    /\ UNCHANGED <<loaded, keepOrder, iter, doc, models, detached, out, status,
                   failure, info, partial>>

NewSchema ==
    /\ probe.how = ""
    /\ Written("makeNewSchema",
               makeNewSchema(CloneParent, CloneHeap, <<"items0">>, EmptySchema, {}))
    /\ UNCHANGED <<loaded, keepOrder, iter, doc, models, detached, out, status,
                   failure, info, partial>>

NextClone == Clone \/ NewSchema

SpecClone == InitClone /\ [][NextClone]_vars

\* The run of the generator on the documents with two inline objects.
InitHoist ==
    /\ keepOrder \in BOOLEAN
    /\ iter \in RangeOrders
    /\ loaded \in HoistDocs
    /\ doc = loaded
    /\ models = loaded
    /\ detached = {}
    /\ out = <<>>
    /\ status = "running"
    /\ failure = NoFailure
    /\ probe = NoProbe
    /\ info = None
    /\ partial = {}

SpecHoist == InitHoist /\ [][Next]_vars

\* The run of the generator on the subtypes of a base type.
InitSubtype ==
    /\ keepOrder \in BOOLEAN
    /\ iter \in RangeOrders
    /\ loaded \in SubtypeDocs
    /\ doc = loaded
    /\ models = loaded
    /\ detached = {}
    /\ out = <<>>
    /\ status = "running"
    /\ failure = NoFailure
    /\ probe = NoProbe
    /\ info = None
    /\ partial = {}

SpecSubtype == InitSubtype /\ [][Next]_vars

\* A default value of the document is given its x-order by WithXOrder and
\* loaded, then recovered by makeGenSchema: probe.got is the value of
\* GenSchema.Default.
InitRecover ==
    /\ probe \in [value : DefaultValues, xordered : {None}, got : {None}]
    /\ keepOrder = TRUE
    /\ iter = <<>>
    /\ loaded = <<>>
    /\ doc = <<>>
    /\ models = <<>>
    /\ detached = {}
    /\ out = <<>>
    /\ status = "running"
    /\ failure = NoFailure
    /\ info = None
    /\ partial = {}

AddXOrderOnDefault ==
    /\ probe.xordered = None
    /\ probe' = [probe EXCEPT !.xordered = Some(Loaded(addXOrder2MapValue(probe.value)))]
    /\ UNCHANGED <<loaded, keepOrder, iter, doc, models, detached, out, status,
                   failure, info, partial>>

Recover ==
    /\ probe.xordered # None
    /\ probe.got = None
    /\ \E desc \in BOOLEAN :
          probe' = [probe EXCEPT
                      !.got = Some(RecoverMapValueOrder(Get(probe.xordered), desc))]
    /\ UNCHANGED <<loaded, keepOrder, iter, doc, models, detached, out, status,
                   failure, info, partial>>

NextRecover == AddXOrderOnDefault \/ Recover

SpecRecover == InitRecover /\ [][NextRecover]_vars

\* The run of the generator on the documents with defaults: with KeepOrder
\* analyzeSpec gives the properties and the defaults their x-order before
\* the document is loaded.
InitDefaults ==
    /\ keepOrder \in BOOLEAN
    /\ iter \in RangeOrders
    /\ \E input \in DefaultDocs :
          loaded = IF keepOrder
                   THEN LoadSpec(AddXOrderOnDefaultExample(WithXOrder(input)))
                   ELSE LoadSpec(input)
    /\ doc = loaded
    /\ models = loaded
    /\ detached = {}
    /\ out = <<>>
    /\ status = "running"
    /\ failure = NoFailure
    /\ probe = NoProbe
    /\ info = None
    /\ partial = {}

SpecDefaults == InitDefaults /\ [][Next]_vars

\* liftSpecialAllOf on the context makeGenDefinition makes for a definition,
\* as makeGenSchema calls it: info is the context's schema after the call.
Lift(mn) ==
    /\ probe = NoProbe
    /\ \E l \in {liftSpecialAllOf(
                    [Ctx0 EXCEPT !.id = 2, !.es = 1, !.Name = mn, !.Named = TRUE,
                                 !.ModelName = mn,
                                 !.orig = {CellPath(1), CellPath(2), ModelPath(mn),
                                           DocPath(mn)}],
                    [doc |-> doc, models |-> models, detached |-> {},
                     cells |-> <<models[mn], models[mn]>>, es |-> <<<<>>>>,
                     failed |-> FALSE, KeepOrder |-> keepOrder])} :
          /\ probe' = [NoProbe EXCEPT !.model = mn, !.err = l.err]
          /\ info' = Some(Sch(l.sg, l.h))
          /\ doc' = l.h.doc
    /\ UNCHANGED <<loaded, keepOrder, iter, models, detached, out, status, failure,
                   partial>>

NextLift == \E mn \in DOMAIN models : Lift(mn)

SpecLiftCall == InitLift /\ [][NextLift]_vars

\* ResolveSchema from outside a run, on the schemas it tells apart.
InitClassify ==
    /\ keepOrder = FALSE
    /\ iter \in {CHOOSE o \in RangeOrders : TRUE}
    /\ loaded \in ClassDocs
    /\ doc = loaded
    /\ models = loaded
    /\ detached = {}
    /\ out = <<>>
    /\ status = "running"
    /\ failure = NoFailure
    /\ probe = NoProbe
    /\ info = None
    /\ partial = {}

SpecClassify == InitClassify /\ [][NextResolve]_vars

\* The name of one model, mangled from outside a run.
InitMangle ==
    /\ keepOrder = FALSE
    /\ iter \in {CHOOSE o \in RangeOrders : TRUE}
    /\ loaded = <<>>
    /\ doc = <<>>
    /\ models = <<>>
    /\ detached = {}
    /\ out = <<>>
    /\ status = "running"
    /\ failure = NoFailure
    /\ probe \in {[value |-> n, got |-> None] : n \in ModelNames}
    /\ info = None
    /\ partial = {}

\* opts.MangleModelName(value)
Mangle ==
    /\ probe.got = None
    /\ probe' = [probe EXCEPT !.got = Some(MangleModelName(probe.value))]
    /\ UNCHANGED <<loaded, keepOrder, iter, doc, models, detached, out, status, failure, info,
                   partial>>

NextMangle == Mangle

SpecMangle == InitMangle /\ [][NextMangle]_vars

\* --------------------------------------------------------- properties

\* the names of a list of GenSchema
Names(props) == [i \in 1..Len(props) |-> props[i].Name]

\* what analysis.Schema finds of definition mn of the document as loaded
Analysed(mn) == AnalyzeSchema(loaded, loaded[mn], {})

\* definition mn is a bare $ref to an array, a map, a known primitive or a
\* polymorphic base type
AliasCase(mn) ==
    /\ loaded[mn].ref # <<>>
    /\ Analysed(mn).err = ""
    /\ Analysed(mn).IsArray \/ Analysed(mn).IsMap \/ Analysed(mn).IsKnownType
       \/ Analysed(mn).IsBaseType

\* C1: the GenSchema of a named definition that is a bare $ref to an array,
\* a map, a known primitive or a base type is a pure alias: it carries the
\* category of the referenced definition, is no complex object, and has no
\* AllOf branches, no Properties and no Items.
C1_PureAlias ==
    \A mn \in DOMAIN out :
       AliasCase(mn) =>
          LET gs == out[mn].GenSchema
          IN /\ Analysed(mn).IsArray => gs.rt.IsArray
             /\ Analysed(mn).IsMap => gs.rt.IsMap
             /\ Analysed(mn).IsKnownType => gs.rt.IsPrimitive
             /\ ~gs.rt.IsComplexObject
             /\ gs.AllOf = <<>> /\ gs.Properties = <<>> /\ gs.Items = None

\* an alias of an alias of an array is built after the alias it refers to,
\* and comes out a primitive
C1_Witness ==
    \E mn \in DOMAIN out :
       /\ AliasCase(mn) /\ Analysed(mn).IsArray
       /\ ~out[mn].GenSchema.rt.IsArray /\ out[mn].GenSchema.rt.IsPrimitive


\* an object schema whose additionalProperties names a schema
HasAdditionalSchema(s) ==
    /\ s.ref = <<>> /\ s.allOf = <<>>
    /\ firstType(s) = "object"
    /\ IsSome(s.addProps) /\ IsSome(Get(s.addProps).Schema)

\* C2: an object whose additionalProperties names a schema resolves to a
\* map and no complex object when it declares no properties, and to a complex
\* object and no map when it declares some; then its GenSchema carries the
\* additionalProperties schema as the AdditionalProperties child, next to the
\* declared Properties.  Stated of the definitions the run has come to, whose
\* additionalProperties does not refer back to the definition.
C2_AdditionalProperties ==
    \A mn \in DOMAIN loaded :
       (/\ HasAdditionalSchema(loaded[mn])
        /\ Get(Get(loaded[mn].addProps).Schema).ref # mn
        /\ mn \in DOMAIN out \/ failure.model = mn) =>
          LET r == ResolveSchema(loaded, mn, loaded[mn], FALSE, TRUE, {})
              declared == {<<k>> : k \in PropNames(loaded[mn])}
          IN /\ failure.model # mn
             /\ r.err = ""
             /\ r.rt.IsMap = (declared = {})
             /\ r.rt.IsComplexObject = (declared # {})
             /\ mn \in DOMAIN out =>
                  LET gs == out[mn].GenSchema
                  IN /\ gs.rt.IsMap = (declared = {})
                     /\ declared = {} => ~gs.rt.IsComplexObject
                     /\ declared # {} => IsSome(gs.AdditionalProperties)
                     /\ {gs.Properties[i].Name : i \in 1..Len(gs.Properties)} = declared

\* the run crashed on an object with properties whose additionalProperties
\* is a $ref
C2_Witness ==
    /\ status = "crashed" /\ failure = [model |-> Foo, err |-> "panic"]
    /\ HasAdditionalSchema(loaded[Foo]) /\ Len(loaded[Foo].props) > 0
    /\ Get(Get(loaded[Foo].addProps).Schema).ref = Bar

\* the branches of definition n that refer to base type b
BranchesTo(n, b) == {i \in 1..Len(doc[n].allOf) : doc[n].allOf[i].ref = b}

\* the entries definition n has among the children of base type b
ChildrenOf(di, n, b) ==
    {j \in 1..Len(di.Discriminators[b].Children) : di.Discriminators[b].Children[j].Ref = n}

\* what discriminatorInfo records of every definition: a definition with a
\* discriminator is a base type; a definition with allOf branches to a base
\* type is a subtype, and has count(branches) entries among the children
Registered(di, count(_)) ==
    /\ \A n \in DOMAIN doc : doc[n].disc # "" => n \in DOMAIN di.Discriminators
    /\ \A n \in DOMAIN doc : \A b \in DOMAIN di.Discriminators :
          BranchesTo(n, b) # {} =>
             /\ n \in DOMAIN di.Discriminated
             /\ Cardinality(ChildrenOf(di, n, b)) = count(BranchesTo(n, b))
             /\ \A j \in ChildrenOf(di, n, b) :
                   LET c == di.Discriminators[b].Children[j]
                   IN /\ c.FieldValue = IF doc[n].ext.xschema # ""
                                        THEN <<doc[n].ext.xschema>> ELSE n
                      /\ c.FieldName = doc[b].disc

\* C3 as stated: discriminatorInfo registers every definition with a
\* discriminator in Discriminators, and every definition whose allOf refers
\* to a base type in Discriminated and as exactly one child of the base, with
\* FieldValue the x-schema extension or else its name, and FieldName the
\* discriminator field of the base.
C3_ExactlyOneChild ==
    IsSome(info) => Registered(Get(info), LAMBDA B : 1)

\* C3, amended: the definition is a child of the base once for every allOf
\* branch that refers to the base.
C3_OneChildPerBranch ==
    IsSome(info) => Registered(Get(info), LAMBDA B : Cardinality(B))

\* discriminatorInfo registered a subtype under its x-schema name, or one
\* with two branches to its base type
C3_Witness ==
    /\ IsSome(info)
    /\ \E b \in DOMAIN Get(info).Discriminators :
          \/ \E j \in 1..Len(Get(info).Discriminators[b].Children) :
                Get(info).Discriminators[b].Children[j].FieldValue = <<"pup">>
          \/ \E n \in DOMAIN doc : Cardinality(ChildrenOf(Get(info), n, b)) = 2


\* the schema branch i of the allOf of definition mn stands for
BranchSchema(mn, i) ==
    IF loaded[mn].allOf[i].ref = <<>> THEN loaded[mn].allOf[i]
    ELSE FollowRefs(loaded, loaded[mn].allOf[i].ref, {}).sch

\* branch i of definition mn declares property k
Declares(mn, i, k) == k \in PropNames(BranchSchema(mn, i))

\* branch i of definition mn refers to a base type
IsBaseBranch(mn, i) == loaded[mn].allOf[i].ref # <<>> /\ BranchSchema(mn, i).disc # ""

\* branch i of the GenSchema keeps a property named k
Keeps(gs, i, k) == \E j \in 1..Len(gs.AllOf[i].Properties) : gs.AllOf[i].Properties[j].Name = <<k>>

Min(S) == CHOOSE i \in S : \A j \in S : i <= j

\* the definitions of the document registered as subtypes
Subtypes == DOMAIN discriminatorInfo(loaded, iter).Discriminated

\* the GenDefinition of every subtype built has IsSubType, and each property
\* name is kept by one branch at most, the branch keeper(mn, k)
Deduped(keeper(_, _)) ==
    \A mn \in DOMAIN out \cap Subtypes :
       LET gs == out[mn].GenSchema
       IN /\ gs.IsSubType
          /\ Len(gs.AllOf) = Len(loaded[mn].allOf)
          /\ \A i \in 1..Len(gs.AllOf) :
                \A k \in UNION {PropNames(BranchSchema(mn, b)) : b \in 1..Len(gs.AllOf)} :
                   Keeps(gs, i, k) => i = keeper(mn, k)

FirstDeclaring(mn, k) == Min({i \in 1..Len(loaded[mn].allOf) : Declares(mn, i, k)})

\* the first base type branch that declares k, the first branch that does
\* when no base type branch does
FirstBaseDeclaring(mn, k) ==
    IF \E i \in 1..Len(loaded[mn].allOf) : IsBaseBranch(mn, i) /\ Declares(mn, i, k)
    THEN Min({i \in 1..Len(loaded[mn].allOf) : IsBaseBranch(mn, i) /\ Declares(mn, i, k)})
    ELSE FirstDeclaring(mn, k)

\* C4 as stated: the GenDefinition of a discriminated subtype has IsSubType,
\* and over its AllOf branches every property name is kept by at most one
\* branch, the first branch that declares it.
C4_FirstBranchKeeps == Deduped(FirstDeclaring)

\* C4, amended: the branch that keeps a name is the first base type branch
\* that declares it, and the first branch that declares it when no base type
\* branch does.
C4_BaseBranchKeeps == Deduped(FirstBaseDeclaring)

\* a subtype is built whose inline branch declares, before the base type
\* branch, a property of the base type
C4_Witness ==
    \E mn \in DOMAIN out \cap Subtypes :
       \E k \in {"name"} :
          /\ ~IsBaseBranch(mn, 1) /\ Declares(mn, 1, k)
          /\ IsBaseBranch(mn, 2) /\ Declares(mn, 2, k)
          /\ Keeps(out[mn].GenSchema, 2, k)

\* the schema ResolveSchema was called on
Probed ==
    IF probe.prop = "" THEN doc[probe.model]
    ELSE doc[probe.model].props[PropOf(doc[probe.model], probe.prop)].v

Called == probe.model # <<>>

\* C5 as stated: ResolveSchema on a schema tagged x-kubernetes-int-or-string
\* returns "int | str", whatever its type list.
C5_AlwaysUnion ==
    (Called /\ Probed.ext.intOrStr) =>
       probe.err = "" /\ probe.rt.KclType = <<"int | str">>

\* the format of the schema maps to a type
FormatMapped(s) ==
    /\ s.format # ""
    /\ \/ IsSome(formatMapping(IF Len(s.type) > 0 THEN s.type[1] ELSE "string",
                               StripDash(s.format)))
       \/ IsSome(typeMapping(StripDash(s.format)))

\* C5, amended: ResolveSchema on a tagged schema that is no $ref and whose
\* format maps to no type returns "int | str", whatever its type list.
C5_UnionAfterRefAndFormat ==
    (Called /\ Probed.ext.intOrStr /\ Probed.ref = <<>> /\ ~FormatMapped(Probed)) =>
       probe.err = "" /\ probe.rt.KclType = <<"int | str">>

\* ResolveSchema was called on a tagged schema of type object
C5_Witness ==
    /\ Called /\ Probed.ext.intOrStr
    /\ Probed.type = <<"object">>
    /\ probe.rt.KclType = <<"int | str">>


\* the slots of a schema whose items is a list
Slots(s) == IF IsSome(s.items) THEN Get(s.items).Schemas ELSE <<>>

\* the GenSchema the list props has for property k
PropertyNamed(props, k) == props[CHOOSE j \in 1..Len(props) : props[j].Name = <<k>>]

\* record e has one required field for each of n tuple slots, named by field
IsTupleRecord(e, n, field(_)) ==
    /\ Len(e.Properties) = n
    /\ \A i \in 1..n : e.Properties[i].Name = <<field(i - 1)>> /\ e.Properties[i].Required

\* every property of a definition built whose items is a list is a bare
\* reference to a new definition of the document, found among the extra
\* schemas, with one required field per slot
Hoisted(field(_)) ==
    \A mn \in DOMAIN out :
       \A i \in 1..Len(loaded[mn].props) :
          Len(Slots(loaded[mn].props[i].v)) > 0 =>
             LET gs == out[mn].GenSchema
                 k == loaded[mn].props[i].k
                 extras == out[mn].ExtraSchemas
             IN /\ \E j \in 1..Len(gs.Properties) : gs.Properties[j].Name = <<k>>
                /\ PropertyNamed(gs.Properties, k).Properties = <<>>
                /\ ~PropertyNamed(gs.Properties, k).rt.IsTuple
                /\ \E x \in 1..Len(extras) :
                      /\ extras[x].Name \in DOMAIN doc \ DOMAIN loaded
                      /\ PropertyNamed(gs.Properties, k).rt.KclType = kclTypeName(extras[x].Name)
                      /\ IsTupleRecord(extras[x], Len(Slots(loaded[mn].props[i].v)), field)

\* C6: makeGenSchema on an anonymous context whose items is a list hoists a
\* new named record with one required field per slot, named p0, p1, ... by
\* position, registers it in the document and in the extra schemas, and
\* leaves the context a bare reference, without tuple Properties.
C6_TupleHoisted == Hoisted(LAMBDA i : "p" \o Itoa(i))

\* the same with the fields named P0, P1, ...
C6_TupleHoistedUpper == Hoisted(LAMBDA i : "P" \o Itoa(i))

\* a definition with a tuple property is built, the record hoisted for it
\* having the fields P0 and P1
C6_Witness ==
    /\ C6_TupleHoistedUpper
    /\ \E mn \in DOMAIN out : \E i \in 1..Len(loaded[mn].props) :
          /\ Len(Slots(loaded[mn].props[i].v)) = 2
          /\ \E x \in 1..Len(out[mn].ExtraSchemas) :
                IsTupleRecord(out[mn].ExtraSchemas[x], 2, LAMBDA n : "P" \o Itoa(n))

\* schema s, or a schema below it, has a single items schema and an
\* additionalItems schema
RECURSIVE ContainsSingleWithAdditional(_)
ContainsSingleWithAdditional(s) ==
    \/ /\ IsSome(s.items) /\ IsSome(Get(s.items).Schema)
       /\ IsSome(s.addItems) /\ IsSome(Get(s.addItems).Schema)
    \/ \E i \in 1..Len(s.props) : ContainsSingleWithAdditional(s.props[i].v)
    \/ \E i \in 1..Len(s.allOf) : ContainsSingleWithAdditional(s.allOf[i])
    \/ \E i \in 1..Len(Slots(s)) : ContainsSingleWithAdditional(Slots(s)[i])
    \/ IsSome(s.items) /\ IsSome(Get(s.items).Schema)
       /\ ContainsSingleWithAdditional(Get(Get(s.items).Schema))
    \/ IsSome(s.addProps) /\ IsSome(Get(s.addProps).Schema)
       /\ ContainsSingleWithAdditional(Get(Get(s.addProps).Schema))

ErrAdditionalItems == "single schema can't have additional items"

C8_PropertyOrder ==
    \A mn \in DOMAIN out :
       (loaded[mn].ref = <<>> /\ loaded[mn].allOf = <<>> /\ Len(loaded[mn].props) > 0) =>
          Names(out[mn].GenSchema.Properties) =
             IF keepOrder
             THEN [i \in 1..Len(loaded[mn].props) |-> <<loaded[mn].props[i].k>>]
             ELSE SortNames({<<k>> : k \in PropNames(loaded[mn])})

\* with KeepOrder, an object that declares b, an inline object, before a is
\* built with a before b
C8_Witness ==
    /\ keepOrder
    /\ \E mn \in DOMAIN out :
          /\ [i \in 1..Len(loaded[mn].props) |-> loaded[mn].props[i].k] = <<"b", "a">>
          /\ Names(out[mn].GenSchema.Properties) = <<(<<"a">>), (<<"b">>)>>

\* definition mn is an array of itself, a map of itself or an object with a
\* property that is itself
RefersToItself(mn) ==
    LET s == loaded[mn]
    IN \/ IsSome(s.items) /\ Get(s.items).Schema = Some(RefProperty(mn))
       \/ IsSome(s.addProps) /\ Get(s.addProps).Schema = Some(RefProperty(mn))
       \/ \E i \in 1..Len(s.props) : s.props[i].v.ref = mn

\* C9: ResolveSchema and makeGenSchema return for a definition that is an
\* array of itself, a map of itself or an object with a property that is
\* itself: building it never recurses without end.
C9_Terminates ==
    \A mn \in DOMAIN loaded :
       RefersToItself(mn) => ~(failure.model = mn /\ failure.err = "overflow")

\* the run never came back from an array of itself
C9_Witness ==
    /\ status = "crashed" /\ failure.err = "overflow"
    /\ RefersToItself(failure.model)
    /\ IsSome(loaded[failure.model].items)

\* the GenDefinition of mn when it is the first definition the run builds
BuiltFirst(mn) ==
    makeGenDefinition(mn, [doc |-> loaded, models |-> loaded, detached |-> {},
                           cells |-> <<>>, es |-> <<>>, failed |-> FALSE, KeepOrder |-> keepOrder], iter)

\* C10: the GenDefinition built for a definition is the same whatever
\* definitions the run built before it.
C10_OrderIndependent ==
    \A mn \in DOMAIN out :
       BuiltFirst(mn).err = "" /\ out[mn] = Get(BuiltFirst(mn).def)

\* a definition is built after another, and differs from what it is when
\* built first
C10_Witness ==
    \E mn \in DOMAIN out :
       /\ Cardinality(DOMAIN out) > 1
       /\ BuiltFirst(mn).err = "" /\ out[mn] # Get(BuiltFirst(mn).def)

RECURSIVE EnumsOf(_)
EnumsOf(v) ==
    (IF v.enum = None THEN {} ELSE {Get(v.enum)})
    \cup UNION {EnumsOf(v.allOf[i]) : i \in 1..Len(v.allOf)}

IsComplexValue(x) == x # Nil /\ x.t \notin ScalarTypes
HasComplex(v) == \E e \in EnumsOf(v) : \E i \in 1..Len(e) : IsComplexValue(e[i])
NonNull(e) == SelectSeq(e, LAMBDA x : x # Nil)
SliceOf(enum) == IF enum = None THEN <<>> ELSE Get(enum)

\* sh holds, for v and for each of its allOf branches, the non-null values
\* of the enum in their order
RECURSIVE EnumsPruned(_, _)
EnumsPruned(v, sh) ==
    /\ SliceOf(sh.Enum) = NonNull(SliceOf(v.enum))
    /\ Len(sh.AllOf) = Len(v.allOf)
    /\ \A i \in 1..Len(v.allOf) : EnumsPruned(v.allOf[i], sh.AllOf[i])

\* C12: the validations of a schema whose enums hold scalars and nulls only
\* are returned, each Enum holding the non-null values in their order; an
\* enum with a list or a map ends the process, nothing is returned.
C12_EnumsPruned ==
    IsSome(probe) =>
       IF HasComplex(doc[Get(probe).model])
       THEN status = "exited" /\ Get(probe).sh = None
       ELSE /\ status = "running"
            /\ IsSome(Get(probe).sh)
            /\ EnumsPruned(doc[Get(probe).model], Get(Get(probe).sh))

\* an enum with a null between two scalars was pruned
C12_Witness ==
    /\ IsSome(probe)
    /\ IsSome(Get(probe).sh)
    /\ \E e \in EnumsOf(doc[Get(probe).model]) :
          Len(e) = 3 /\ e[2] = Nil /\ e[1] # Nil /\ e[3] # Nil

\* the package paths of the schemas of gs that are imported into toPkg
RECURSIVE PkgsOf(_, _)
PkgsOf(gs, toPkg) ==
    (IF gs.Pkg = toPkg \/ gs.Pkg = <<>> THEN {} ELSE {gs.Pkg})
    \cup UNION {PkgsOf(gs.Properties[i], toPkg) : i \in 1..Len(gs.Properties)}
    \cup UNION {PkgsOf(gs.AllOf[i], toPkg) : i \in 1..Len(gs.AllOf)}
    \cup (IF gs.Items = None THEN {} ELSE PkgsOf(Get(gs.Items), toPkg))
    \cup (IF gs.AdditionalProperties = None THEN {}
          ELSE PkgsOf(Get(gs.AdditionalProperties), toPkg))

IsSuffix(x, y) == Len(x) <= Len(y) /\ x = SubSeq(y, Len(y) - Len(x) + 1, Len(y))

\* imports holds one statement for each package of pkgs, by ascending
\* package path
SortedByPkg(imports, pkgs) ==
    /\ Len(imports) = Cardinality(pkgs)
    /\ \A i \in 1..Len(imports) : IsSuffix(imports[i].ImportPath, SortNames(pkgs)[i])

\* C13: no two import statements of a definition have the same alias, and
\* there is one statement for each imported package, by ascending package
\* path.
C13_UniqueAliases ==
    IsSome(probe) =>
       /\ \A i, j \in 1..Len(Get(probe).Imports) :
             i # j => Get(probe).Imports[i].AsName # Get(probe).Imports[j].AsName
       /\ SortedByPkg(Get(probe).Imports,
                      PkgsOf(out[Get(probe).model].GenSchema,
                             out[Get(probe).model].GenSchema.Pkg))

\* the imports were collected for a model with three imported packages
\* that end in the same segment
C13_Witness ==
    /\ IsSome(probe)
    /\ Len(Get(probe).Imports) = 3
    /\ \A i \in 1..3 : LET p == Get(probe).Imports[i].ImportPath IN p[Len(p)] = "b"

\* one statement per imported package, by ascending package path
C13_OnePerPackage ==
    IsSome(probe) =>
       SortedByPkg(Get(probe).Imports,
                   PkgsOf(out[Get(probe).model].GenSchema,
                          out[Get(probe).model].GenSchema.Pkg))

\* the versions of the CRD that carry an OpenAPI v3 schema
SchemaVersions(crd) == {i \in 1..Len(crd.Versions) : HasSchema(crd.Versions[i].Schema)}

\* definition s has the three injected properties
KubeNative(s) ==
    /\ {"apiVersion", "kind", "metadata"} \subseteq PropNames(s)
    /\ s.props[PropOf(s, "apiVersion")].v.type = <<"string">>
    /\ s.props[PropOf(s, "kind")].v.type = <<"string">>
    /\ s.props[PropOf(s, "metadata")].v.ref = objectMetaSchemaRef

\* C14: once the CRD is converted, the document holds one definition
\* <group>.<version>.<kind> for every version with an OpenAPI v3 schema,
\* each with apiVersion, kind and metadata ($ref to ObjectMeta) injected;
\* a CRD without any OpenAPI v3 schema ends with an error.
C14_OnePerVersion ==
    /\ IsSome(probe) =>
          /\ \A i \in SchemaVersions(loaded) :
                CrdName(loaded.Group, loaded.Versions[i].Name, loaded.Kind) \in DOMAIN doc
          /\ \A n \in DOMAIN doc : KubeNative(doc[n])
    /\ ~CRDContainsValidation(loaded) =>
          /\ doc = <<>>
          /\ ENABLED GetSpec \/ status = "failed"

\* a CRD with two versions, each with a schema, was converted
C14_Witness ==
    /\ IsSome(probe)
    /\ Cardinality(SchemaVersions(loaded)) = 2

\* every definition built has the three properties, and a CRD without any
\* OpenAPI v3 schema ends with an error
C14_KubeNative ==
    /\ IsSome(probe) => doc # <<>> /\ \A n \in DOMAIN doc : KubeNative(doc[n])
    /\ ~CRDContainsValidation(loaded) =>
          /\ doc = <<>>
          /\ ENABLED GetSpec \/ status = "failed"

\* every property of element has its position as x-order, and so have the
\* properties at any depth under a property of type object
RECURSIVE Ordered(_)
Ordered(element) ==
    \A i \in 1..Len(element.props) :
       /\ element.props[i].v.ext.xorder = Some(i - 1)
       /\ element.props[i].v.type = <<"object">> => Ordered(element.props[i].v)

\* C15: after AddXOrderOnProperty every property of every definition, and
\* every property at any depth under a property of type object, has its
\* position among its siblings as x-order, whatever x-order it had.
C15_AllOrdered == probe >= 1 => \A n \in DOMAIN doc : Ordered(doc[n])

\* the document had a property of type object with properties and with an
\* x-order of its own, written before its type
C15_Witness ==
    /\ probe >= 1
    /\ \E n \in DOMAIN loaded : \E i \in 1..Len(loaded[n].props) :
          /\ loaded[n].props[i].v.type = <<"object">>
          /\ loaded[n].props[i].v.props # <<>>
          /\ IsSome(loaded[n].props[i].v.ext.xorder)
          /\ loaded[n].props[i].v.ext.xorderFirst

\* the properties of the definitions themselves have their position as
\* x-order
C15_TopOrdered ==
    probe >= 1 =>
       \A n \in DOMAIN doc : \A i \in 1..Len(doc[n].props) :
          doc[n].props[i].v.ext.xorder = Some(i - 1)

\* a second AddXOrderOnProperty leaves the document as it is
C15_Idempotent == [][probe = 1 => doc' = doc]_vars

\* position i of name stands before a '.', or is one
BeforeDot(name, i) == \E j \in i..Len(name) : name[j] = "."

\* C16: MangleModelName leaves a name as it is up to its last '.', and
\* replaces every '-' by '_' after it; a name without '-' after its last
\* '.' is returned as it is, with the prefix '$' when the whole name is a
\* reserved word.
C16_LastSegmentMangled ==
    probe.got # None =>
       /\ probe.value \notin ReservedWords =>
             /\ Len(Get(probe.got)) = Len(probe.value)
             /\ \A i \in 1..Len(probe.value) :
                   Get(probe.got)[i] = IF ~BeforeDot(probe.value, i) /\ probe.value[i] = "-"
                                       THEN "_" ELSE probe.value[i]
       /\ probe.value \in ReservedWords => Get(probe.got) = <<"$">> \o probe.value

\* a name with a '-' before its last '.' and one after it was mangled
C16_Witness ==
    /\ probe.got # None
    /\ \E i, j, k \in 1..Len(probe.value) :
          /\ i < j /\ j < k
          /\ probe.value[i] = "-" /\ probe.value[j] = "." /\ probe.value[k] = "-"
          /\ ~BeforeDot(probe.value, k)

\* what ResolveSchema tells of a schema: its type and the five categories
Class(rt) ==
    [KclType |-> rt.KclType, IsArray |-> rt.IsArray, IsMap |-> rt.IsMap,
     IsTuple |-> rt.IsTuple, IsPrimitive |-> rt.IsPrimitive,
     IsComplexObject |-> rt.IsComplexObject]

\* a type of no category
Uncategorized(kclType) ==
    [KclType |-> kclType, IsArray |-> FALSE, IsMap |-> FALSE, IsTuple |-> FALSE,
     IsPrimitive |-> FALSE, IsComplexObject |-> FALSE]

\* the type the format of s maps to, for the type of s first
MappedType(s) ==
    IF IsSome(formatMapping(IF Len(s.type) > 0 THEN s.type[1] ELSE "string",
                            StripDash(s.format)))
    THEN Get(formatMapping(IF Len(s.type) > 0 THEN s.type[1] ELSE "string",
                           StripDash(s.format)))
    ELSE Get(typeMapping(StripDash(s.format)))

\* the arguments ResolveSchema was called with
ProbedAnonymous == probe.prop # ""
ProbedRequired == probe.prop = "" \/ probe.prop \in doc[probe.model].required

\* C17: ResolveSchema goes by the first of these that applies, and by
\* nothing after it: the $ref (the result is the one of the bare $ref,
\* whatever type, format and flag stand next to it), a format that maps to
\* a type (that type, of no category, whatever the flag), the int-or-string
\* flag (the union type, whatever the type list), the first declared type.
C17_FirstRuleOnly ==
    Called =>
       IF Probed.ref # <<>>
       THEN [rt |-> probe.rt, err |-> probe.err]
               = ResolveSchema(doc, probe.model, RefProperty(Probed.ref), ProbedAnonymous,
                               ProbedRequired, {})
       ELSE IF FormatMapped(Probed)
       THEN probe.err = "" /\ Class(probe.rt) = Uncategorized(MappedType(Probed))
       ELSE IF Probed.ext.intOrStr
       THEN probe.err = "" /\ Class(probe.rt) = Uncategorized(<<"int | str">>)
       ELSE IF firstType(Probed) = "array"
       THEN probe.err = "" => probe.rt.IsArray \/ probe.rt.IsTuple
       ELSE IF firstType(Probed) \in {"number", "integer", "boolean", "string"}
       THEN /\ probe.err = ""
            /\ probe.rt.IsPrimitive
            /\ probe.rt.KclType = Get(typeMapping(firstType(Probed)))
       ELSE IF firstType(Probed) = "object"
       THEN probe.err = "" => ~probe.rt.IsPrimitive /\ ~probe.rt.IsArray /\ ~probe.rt.IsTuple
       ELSE probe.err = "unresolvable"

\* ResolveSchema was called on a $ref that has a type, a mapped format and
\* the flag next to it
C17_Witness ==
    /\ Called
    /\ FormatMapped(Probed) /\ Probed.ext.intOrStr /\ Probed.type = <<"integer">>
    /\ Probed.format = "int32"
    /\ Probed.ref # <<>>
    /\ probe.err = ""

\* ResolveSchema was called on a schema that has no $ref, no format that
\* maps to a type and no int-or-string flag
ByType == Called /\ Probed.ref = <<>> /\ ~FormatMapped(Probed) /\ ~Probed.ext.intOrStr

\* C18: by its type list alone, a schema of the two types string and
\* integer, in either order, resolves to the union type "int | str", any
\* other list of several types is an error, and so is a single type that
\* is none of array, number, integer, boolean, string and object.
C18_TypeLists ==
    ByType =>
       /\ Probed.type \in {<<"string", "integer">>, <<"integer", "string">>} =>
             probe.err = "" /\ probe.rt.KclType = <<"int | str">>
       /\ (Len(Probed.type) > 1
            /\ Probed.type \notin {<<"string", "integer">>, <<"integer", "string">>}) =>
             probe.err # ""
       /\ (Len(Probed.type) = 1
            /\ Probed.type[1] \notin {"array", "number", "integer", "boolean", "string",
                                      "object", ""}) =>
             probe.err # ""

\* ResolveSchema was called on the type list string, integer
C18_Witness ==
    /\ ByType
    /\ Probed.type = <<"string", "integer">>
    /\ probe.err = "unresolvable"

\* a single type that is none of the six is an error, and so is the pair
\* of string and integer
C18_SingleType ==
    ByType =>
       /\ (Len(Probed.type) = 1
            /\ Probed.type[1] \notin {"array", "number", "integer", "boolean", "string",
                                      "object", ""}) =>
             probe.err = "unresolvable"
       /\ Probed.type \in {<<"string", "integer">>, <<"integer", "string">>} =>
             probe.err = "unresolvable"
       /\ Probed.type = <<"string", "boolean">> =>
             probe.err = "" /\ probe.rt.IsPrimitive /\ probe.rt.KclType = <<"str">>

\* the categories rt is of
Categories(rt) ==
    {c \in {"IsArray", "IsMap", "IsTuple", "IsPrimitive", "IsComplexObject"} : rt[c]}

\* the GenSchema gs and the GenSchemas below it are of one category each
RECURSIVE OneCategoryEach(_)
OneCategoryEach(gs) ==
    /\ Cardinality(Categories(gs.rt)) = 1
    /\ \A i \in 1..Len(gs.Properties) : OneCategoryEach(gs.Properties[i])
    /\ \A i \in 1..Len(gs.AllOf) : OneCategoryEach(gs.AllOf[i])
    /\ IsSome(gs.Items) => OneCategoryEach(Get(gs.Items))
    /\ IsSome(gs.AdditionalItems) => OneCategoryEach(Get(gs.AdditionalItems))
    /\ IsSome(gs.AdditionalProperties) => OneCategoryEach(Get(gs.AdditionalProperties))

\* C19: a type that ResolveSchema returns without an error is of exactly
\* one of the categories array, map, tuple, primitive and complex object,
\* and so is the type of every GenSchema of a definition built.
C19_OneCategory ==
    /\ (Called /\ probe.err = "") => Cardinality(Categories(probe.rt)) = 1
    /\ \A mn \in DOMAIN out :
          /\ OneCategoryEach(out[mn].GenSchema)
          /\ \A i \in 1..Len(out[mn].ExtraSchemas) : OneCategoryEach(out[mn].ExtraSchemas[i])

\* ResolveSchema returned the type of a mapped format, of no category
C19_Witness ==
    /\ Called /\ probe.err = ""
    /\ Probed.ref = <<>> /\ FormatMapped(Probed)
    /\ Categories(probe.rt) = {}

\* no type that ResolveSchema returns is of more than two categories, and
\* the type of a schema resolved by its type list alone, that is not an
\* object, is of one
C19_ByTypeOneCategory ==
    (Called /\ probe.err = "") =>
       /\ Cardinality(Categories(probe.rt)) <= 2
       /\ (ByType /\ firstType(Probed) # "object") => Cardinality(Categories(probe.rt)) = 1

\* entry sch of an allOf declares a type, a property, a $ref or an allOf
Declared(sch) ==
    Len(sch.type) > 0 \/ Len(sch.props) > 0 \/ sch.ref # <<>> \/ Len(sch.allOf) > 0

\* entry sch of the allOf of definition mn can be lifted: it resolves to a
\* complex object that is not anonymous, or to a primitive
Liftable(mn, sch) ==
    \E r \in {ResolveSchema(loaded, mn, sch, TRUE, TRUE, {})} :
       /\ r.err = ""
       /\ (~r.rt.IsAnonymous /\ r.rt.IsComplexObject) \/ r.rt.IsPrimitive

Entries(mn, P(_)) == {i \in 1..Len(loaded[mn].allOf) : P(loaded[mn].allOf[i])}
LiftableEntries(mn) == {i \in 1..Len(loaded[mn].allOf) : Liftable(mn, loaded[mn].allOf[i])}

\* the type a named, required schema s of definition mn resolves to
TypeOf(mn, s) == ResolveSchema(loaded, mn, s, FALSE, TRUE, {}).rt.KclType

Lifted == probe.model
AfterLift == Get(info)

\* C21: liftSpecialAllOf leaves the schema of a context as it is when no
\* entry of its allOf, of two entries or more, can be lifted, and when two
\* or more can.
C21_Untouched ==
    (Called /\ probe.err = "" /\ Len(loaded[Lifted].allOf) >= 2
       /\ Cardinality(LiftableEntries(Lifted)) # 1) =>
          AfterLift = loaded[Lifted]

\* the schema is left as it is when two entries can be lifted
C21_Witness ==
    /\ Called
    /\ probe.err = ""
    /\ Len(loaded[Lifted].allOf) >= 2
    /\ Cardinality(LiftableEntries(Lifted)) = 2
    /\ AfterLift = loaded[Lifted]

\* the schema is left as it is when two entries or more declare a type, a
\* property, a $ref or an allOf, and when none does
C21_SeveralDeclared ==
    (Called /\ probe.err = "" /\ Cardinality(Entries(Lifted, Declared)) # 1) =>
       AfterLift = loaded[Lifted]

\* branch sch of a composition of definition mn is made a definition of its
\* own: it is anonymous with an allOf of its own, or it is an array or a
\* primitive and no $ref
HoistedBranch(mn, sch) ==
    \E r \in {ResolveSchema(loaded, mn, sch, sch.ref = <<>>, FALSE, {})} :
       \/ r.rt.IsAnonymous /\ Len(sch.allOf) > 0
       \/ sch.ref = <<>> /\ ~r.rt.IsComplexObject /\ (r.rt.IsArray \/ r.rt.IsPrimitive)

\* the name of the definition made of branch i (from 1) of definition mn
BranchName(mn, i) == ToGoName(mn \o <<"AllOf" \o Itoa(i - 1)>>)

\* C22: a definition built of a composition of n branches has n entries in
\* GenSchema.AllOf, entry i built from branch i; every branch that is made a
\* definition of its own is in the document under the name of the parent,
\* "AllOf" and its index, and the branch is a $ref to it.
C22_BranchPerEntry ==
    \A mn \in DOMAIN out \cap DOMAIN loaded :
       Len(loaded[mn].allOf) >= 2 =>
          /\ Len(out[mn].GenSchema.AllOf) = Len(loaded[mn].allOf)
          /\ \A i \in 1..Len(loaded[mn].allOf) :
                HoistedBranch(mn, loaded[mn].allOf[i]) =>
                   /\ BranchName(mn, i) \in DOMAIN doc
                   /\ doc[mn].allOf[i] = RefProperty(BranchName(mn, i))
                   /\ out[mn].GenSchema.AllOf[i].rt.KclType = BranchName(mn, i)

\* the array items of definition mn are made a definition of their own, and
\* the definition is built a second time on the same context
BuiltTwice(mn) ==
    /\ IsSome(loaded[mn].items)
    /\ IsSome(Get(loaded[mn].items).Schema)
    /\ Len(Get(Get(loaded[mn].items).Schema).props) > 0

\* a definition built of a composition whose first branch, a primitive, is
\* made a definition of its own
C22_Witness ==
    /\ Foo \in DOMAIN out
    /\ Len(loaded[Foo].allOf) = 2
    /\ loaded[Foo].allOf[1] = String
    /\ HoistedBranch(Foo, loaded[Foo].allOf[1])
    /\ doc[Foo].allOf[1] = RefProperty(BranchName(Foo, 1))
    /\ Len(out[Foo].GenSchema.AllOf) = 2

\* a definition whose items are made a definition of their own has every
\* branch of its composition twice
C22_BranchesTwice ==
    \A mn \in DOMAIN out \cap DOMAIN loaded :
       Len(loaded[mn].allOf) >= 2 =>
          Len(out[mn].GenSchema.AllOf) =
             (IF BuiltTwice(mn) THEN 2 ELSE 1) * Len(loaded[mn].allOf)

\* a definition built once has an entry for every branch of its composition,
\* and the branches made definitions are $refs to them
C22_BuiltOnce ==
    \A mn \in DOMAIN out \cap DOMAIN loaded :
       (Len(loaded[mn].allOf) >= 2 /\ ~BuiltTwice(mn)) =>
          /\ Len(out[mn].GenSchema.AllOf) = Len(loaded[mn].allOf)
          /\ \A i \in 1..Len(loaded[mn].allOf) :
                HoistedBranch(mn, loaded[mn].allOf[i]) =>
                   /\ BranchName(mn, i) \in DOMAIN doc
                   /\ doc[mn].allOf[i] = RefProperty(BranchName(mn, i))
                   /\ out[mn].GenSchema.AllOf[i].rt.KclType = BranchName(mn, i)

\* the parent after MergeResult
Merged == Get(probe.merged).GenSchema

\* C23 as stated: MergeResult without liftsRequired leaves the Required
\* flag and the base-type flags of the parent as they were.
C23_FlagsKept ==
    (probe.merged # None /\ ~probe.liftsRequired) =>
       /\ Merged.Required = probe.sg.Required
       /\ Merged.HasBaseType = probe.sg.HasBaseType
       /\ Merged.IsBaseType = probe.sg.IsBaseType

\* C23, amended: MergeResult sets the Required flag of the parent only with
\* liftsRequired, when the child or its additionalProperties is required; it
\* sets HasBaseType when the child's is set, with and without liftsRequired;
\* beside these it changes the validation flag and the extra schemas only.
C23_RequiredLifted ==
    probe.merged # None =>
       /\ Merged.Required =
             (probe.sg.Required
                \/ (probe.liftsRequired
                    /\ (probe.other.Required \/ IsSome(probe.other.AdditionalProperties))))
       /\ Merged.HasBaseType = (probe.sg.HasBaseType \/ probe.other.HasBaseType)
       /\ Merged.HasValidations = (probe.sg.HasValidations \/ probe.other.HasValidations)
       /\ Merged = [probe.sg EXCEPT !.Required = Merged.Required,
                                    !.HasBaseType = Merged.HasBaseType,
                                    !.HasValidations = Merged.HasValidations]
       /\ DOMAIN Get(probe.merged).ExtraSchemas = {<<"Foo", "B">>} \cup DOMAIN probe.extra

\* a required child with a base type, merged without liftsRequired into a
\* parent that is neither: the parent has a base type and is not required
C23_Witness ==
    /\ probe.merged # None
    /\ ~probe.liftsRequired
    /\ probe.other.Required /\ probe.other.HasBaseType
    /\ ~probe.sg.Required /\ ~probe.sg.HasBaseType
    /\ ~Merged.Required /\ Merged.HasBaseType

\* C24 as stated: a child derived by shallowClone starts with an empty
\* GenSchema and an empty ExtraSchemas map of its own, and its writes leave
\* the GenSchema and the ExtraSchemas of the parent as they were.
C24_OwnBuffers ==
    probe.how = "shallowClone" =>
       /\ Get(probe.start).GenSchema = GS0
       /\ Get(probe.start).ExtraSchemas = <<>>
       /\ Get(probe.parent).GenSchema = probe.sg
       /\ Get(probe.parent).ExtraSchemas = probe.extra

\* C24, amended: a child derived by shallowClone starts with an empty
\* GenSchema of its own and with the ExtraSchemas map of its parent: a write
\* to its GenSchema leaves the parent's as it was, a write to its
\* ExtraSchemas is a write to the parent's.  A child made by makeNewSchema
\* has a map of its own, that starts empty.
C24_SharedExtras ==
    /\ probe.how = "shallowClone" =>
          /\ Get(probe.start).GenSchema = GS0
          /\ Get(probe.start).ExtraSchemas = probe.extra
          /\ Get(probe.parent).GenSchema = probe.sg
          /\ Get(probe.parent).ExtraSchemas = Get(probe.child).ExtraSchemas
          /\ probe.name \in DOMAIN Get(probe.parent).ExtraSchemas
          /\ Get(probe.parent).ExtraSchemas[probe.name] = Get(probe.child).GenSchema
    /\ probe.how = "makeNewSchema" =>
          /\ Get(probe.start).GenSchema = GS0
          /\ Get(probe.start).ExtraSchemas = <<>>
          /\ Get(probe.parent).GenSchema = probe.sg
          /\ Get(probe.parent).ExtraSchemas = MapPut(probe.extra, <<"Items0">>, GS0)

\* the entry a clone wrote is in the map of its parent, that did not have it
C24_Witness ==
    /\ probe.how = "shallowClone"
    /\ probe.name \notin DOMAIN probe.extra
    /\ probe.name \in DOMAIN Get(probe.parent).ExtraSchemas

\* C25: the definitions of the document change by insertion only: every
\* definition of the document that was loaded is in the document of the run,
\* with the schema it was loaded with.
C25_InsertOnly ==
    \A n \in DOMAIN loaded : n \in DOMAIN doc /\ doc[n] = loaded[n]

\* a definition that was loaded as a $ref is built, and is the empty schema
\* in the document
C25_Witness ==
    \E n \in DOMAIN loaded \cap DOMAIN out :
       /\ loaded[n].ref # <<>>
       /\ doc[n] = EmptySchema

\* no definition is ever removed from the document
C25_NeverRemoved == [][DOMAIN doc \subseteq DOMAIN doc']_vars

\* the properties of definition mn that are made definitions of their own:
\* the inline objects with properties
HoistedProps(mn) ==
    {i \in 1..Len(loaded[mn].props) :
        /\ loaded[mn].props[i].v.type = <<"object">>
        /\ Len(loaded[mn].props[i].v.props) > 0}

\* the definitions the run added to the document
Added == DOMAIN doc \ DOMAIN loaded

\* C26: the names of the definitions made of the sub-schemas of a definition
\* are unique: when Foo alone is built, the document has one new definition
\* for every inline object among its properties, each with the schema of its
\* property, and none of them under the name of a loaded definition.
C26_UniqueNames ==
    DOMAIN out = {Foo} =>
       /\ Cardinality(Added) = Cardinality(HoistedProps(Foo))
       /\ \A i \in HoistedProps(Foo) :
             \E n \in Added : doc[n] = loaded[Foo].props[i].v

\* Foo is built, its properties a and A are inline objects, and one
\* definition was added for the two
C26_Witness ==
    /\ DOMAIN out = {Foo}
    /\ PropNames(loaded[Foo]) = {"a", "A"}
    /\ Cardinality(HoistedProps(Foo)) = 2
    /\ Cardinality(Added) = 1

\* two properties whose names differ in more than the case of the first
\* letter, in a document that declares no FooA: a definition for each
C26_DistinctTitles ==
    (DOMAIN out = {Foo} /\ DOMAIN loaded = {Foo}
       /\ ~ {"a", "A"} \subseteq PropNames(loaded[Foo])) =>
          /\ Cardinality(Added) = Cardinality(HoistedProps(Foo))
          /\ \A i \in HoistedProps(Foo) :
                \E n \in Added : doc[n] = loaded[Foo].props[i].v

\* C27: makeGenDefinitionHierarchy writes the entries of GenSchema.AllOf
\* that exist only: no subtype makes the run crash, and a subtype that is
\* built has an entry at every index at which its allOf holds a $ref to a
\* base type.
C27_EntriesExist ==
    \A mn \in Subtypes :
       /\ ~(status = "crashed" /\ failure.model = mn)
       /\ mn \in DOMAIN out =>
             \A i \in 1..Len(loaded[mn].allOf) :
                IsBaseBranch(mn, i) => i <= Len(out[mn].GenSchema.AllOf)

\* a subtype is built, with its base type in the entry of its $ref
C27_Witness ==
    /\ Foo \in Subtypes
    /\ Foo \in DOMAIN out
    /\ \E i \in 1..Len(loaded[Foo].allOf) :
          /\ IsBaseBranch(Foo, i)
          /\ i <= Len(out[Foo].GenSchema.AllOf)
          /\ out[Foo].GenSchema.AllOf[i].IsBaseType

\* the subtypes the run crashes on are those of which liftSpecialAllOf
\* replaces the schema: exactly one entry of their allOf declares a type, a
\* property, a $ref or an allOf
C27_CrashWhenLifted ==
    \A mn \in Subtypes :
       (status = "crashed" /\ failure.model = mn) =>
          /\ failure.err = "panic"
          /\ Cardinality(Entries(mn, Declared)) = 1

\* value has a map among the items of a list, at any depth
RECURSIVE MapInList(_, _)
MapInList(value, inList) ==
    CASE value.t = "map" ->
           \/ inList
           \/ \E i \in 1..Len(value.entries) : MapInList(value.entries[i].Value, FALSE)
      [] value.t = "list" ->
           \E i \in 1..Len(value.items) : MapInList(value.items[i], TRUE)
      [] OTHER -> FALSE

\* C28: RecoverMapValueOrder of a value with the x-order of
\* AddXOrderOnDefaultExample is the value, every map with its entries in the
\* order of the document.
C28_Inverse ==
    probe.got # None => Get(probe.got) = probe.value

\* a map whose entries are maps is recovered, with its entries in the order
\* b, a
C28_Witness ==
    /\ probe.got # None
    /\ probe.value.t = "map"
    /\ Len(probe.value.entries) = 2
    /\ probe.value.entries[1].Key = "b"
    /\ probe.value.entries[1].Value.t = "map"
    /\ Len(probe.value.entries[1].Value.entries) = 2
    /\ Get(probe.got) = probe.value

\* the value is recovered when no map is an item of a list; a list is
\* returned as it was loaded, its maps as objects with {value, x-order}
C28_InverseOutsideLists ==
    probe.got # None =>
       /\ ~MapInList(probe.value, FALSE) => Get(probe.got) = probe.value
       /\ probe.value.t = "list" => Get(probe.got) = Get(probe.xordered)

\* the schemas of the document below a definition, itself included
RECURSIVE Nodes(_)
Nodes(s) ==
    {s} \cup UNION {Nodes(s.props[i].v) : i \in 1..Len(s.props)}
        \cup UNION {Nodes(s.allOf[i]) : i \in 1..Len(s.allOf)}
        \cup (IF IsSome(s.items) /\ IsSome(Get(s.items).Schema)
              THEN Nodes(Get(Get(s.items).Schema)) ELSE {})
        \cup (IF IsSome(s.addProps) /\ IsSome(Get(s.addProps).Schema)
              THEN Nodes(Get(Get(s.addProps).Schema)) ELSE {})

\* C29: with KeepOrder, RecoverMapValueOrder never ends the run: no
\* definition fails on the default of one of its schemas.
C29_NeverAborts ==
    keepOrder => ~(status = "crashed" /\ failure.err \in {"fatal", "panic"})

\* with KeepOrder, a definition with a map of maps as the default of a
\* property of a property is built
C29_Witness ==
    /\ keepOrder
    /\ Foo \in DOMAIN out
    /\ \E i \in 1..Len(loaded[Foo].props) :
          \E j \in 1..Len(loaded[Foo].props[i].v.props) :
             /\ HasDefault(loaded[Foo].props[i].v.props[j].v)
             /\ loaded[Foo].props[i].v.props[j].v.default.t = "object"
             /\ \E k \in DOMAIN loaded[Foo].props[i].v.props[j].v.default.fields :
                   "x-order" \in
                      DOMAIN loaded[Foo].props[i].v.props[j].v.default.fields[k].fields

\* the runs that RecoverMapValueOrder ends are those of a document with a
\* map as the default of a schema that is no definition and no property of
\* one: items, additionalProperties or a branch of an allOf
C29_AbortsBelowProperties ==
    (status = "crashed" /\ failure.err = "fatal") =>
       /\ keepOrder
       /\ \E n \in Nodes(loaded[failure.model]) :
             /\ HasDefault(n)
             /\ n.default.t = "object"
             /\ \E k \in DOMAIN n.default.fields :
                   \/ n.default.fields[k].t # "object"
                   \/ "x-order" \notin DOMAIN n.default.fields[k].fields

\* the names of the extra schemas of a definition that was built
ExtraNames(mn) ==
    {out[mn].ExtraSchemas[i].Name : i \in 1..Len(out[mn].ExtraSchemas)}

\* C30: the ExtraSchemas of a definition that was built are GenSchemas that
\* were built, with a name and a type, in ascending order of their names,
\* each once; when the definition is the first one built, every definition
\* added to the document is among them.
C30_ExtrasBuilt ==
    \A mn \in DOMAIN out :
       /\ \A i \in 1..Len(out[mn].ExtraSchemas) :
             /\ out[mn].ExtraSchemas[i] # GS0
             /\ out[mn].ExtraSchemas[i].Name # <<>>
             /\ out[mn].ExtraSchemas[i].rt # RT0
       /\ \A i \in 1..Len(out[mn].ExtraSchemas) - 1 :
             NameLess(out[mn].ExtraSchemas[i].Name, out[mn].ExtraSchemas[i + 1].Name)
       /\ DOMAIN out = {mn} => Added \subseteq ExtraNames(mn)

\* a definition is built with the definition made of one of its
\* sub-schemas as its extra schema, built
C30_Witness ==
    \E mn \in DOMAIN out :
       /\ DOMAIN out = {mn}
       /\ Added # {}
       /\ Added = ExtraNames(mn)
       /\ \A i \in 1..Len(out[mn].ExtraSchemas) : out[mn].ExtraSchemas[i].rt # RT0

\* the ExtraSchemas of the definitions that are no $ref are built, and in
\* ascending order of their names
C30_ExtrasOfNoAlias ==
    \A mn \in DOMAIN out :
       loaded[mn].ref = <<>> =>
          /\ \A i \in 1..Len(out[mn].ExtraSchemas) :
                /\ out[mn].ExtraSchemas[i].Name # <<>>
                /\ out[mn].ExtraSchemas[i].rt # RT0
          /\ \A i \in 1..Len(out[mn].ExtraSchemas) - 1 :
                NameLess(out[mn].ExtraSchemas[i].Name, out[mn].ExtraSchemas[i + 1].Name)

=============================================================================
